---- MODULE Spec2Model ----
(***************************************************************************)
(* A model of ziip's file-detection and robust-loading pipeline:           *)
(*   file-detection.js  (src/unnamed/part_005)                             *)
(*   DuckDBEngine       (src/src/lib/duckdb-engine.js)                     *)
(*                                                                         *)
(* Bytes are numbers 0..255.  Text is a sequence of Unicode code points    *)
(* (numbers); Ch names the code points the code mentions.                  *)
(***************************************************************************)
EXTENDS Integers, Sequences, FiniteSets, TLC

VARIABLES
  bytes,      \* pipeline: the raw bytes of the file under analysis
  enc,        \* pipeline: the EncodingInfo detectEncoding returned
  text,       \* pipeline: the text at the current stage
  once,       \* pipeline: the text after the first sanitization
  stage,      \* pipeline: which stage of the pipeline has run
  opts,       \* pipeline: the load options applied to the text
  arg,        \* pipeline: the argument of the function applied on its own
  ret,        \* pipeline: what that function returned
  initialized,\* engine: DuckDBEngine.initialized
  db,         \* engine: DuckDBEngine.db, the database this.db (0 is null)
  conn,       \* engine: DuckDBEngine.conn, the database it connects to (0 is null)
  tables,     \* engine: DuckDBEngine.tables, the table registry
  workers,    \* DuckDB: how many workers (databases) init() has created
  dead,       \* DuckDB: the databases close() has closed or terminated
  dbFiles,    \* DuckDB: per database, the texts registered with registerFileText
  dbTables,   \* DuckDB: per database, the tables it holds
  calls,      \* the calls of engine operations in flight and where each stands
  ops,        \* how many operations have been called so far
  engineRef,  \* hook: engineRef.current is set (the mount effect has run)
  apiKey,     \* hook: the apiKey the hook was given is not empty
  isLoading,  \* hook: the isLoading state
  error,      \* hook: the error state (<<>> is null)
  lastQuery,  \* hook: the lastQuery state (0 is null)
  lastResults,\* hook: the lastResults state (0 is null)
  hookCalls,  \* the calls of hook functions in flight and where each stands
  hookOps     \* how many hook functions have been called so far

vars == <<bytes, enc, text, once, stage, opts, arg, ret,
          initialized, db, conn, tables, workers, dead, dbFiles, dbTables,
          calls, ops,
          engineRef, apiKey, isLoading, error, lastQuery, lastResults, hookCalls,
          hookOps>>

pipeVars == <<bytes, enc, text, once, stage, opts, arg, ret>>
engineVars == <<initialized, db, conn, tables, workers, dead, dbFiles, dbTables,
                calls, ops>>
hookVars == <<engineRef, apiKey, isLoading, error, lastQuery, lastResults, hookCalls,
          hookOps>>

(***************************************************************************)
(* Characters                                                              *)
(***************************************************************************)
Ch == [NUL |-> 0, TAB |-> 9, LF |-> 10, VT |-> 11, FF |-> 12, CR |-> 13,
       SP |-> 32, DQ |-> 34, SQ |-> 39, PLUS |-> 43, COMMA |-> 44,
       MINUS |-> 45, DOT |-> 46, ZERO |-> 48, NINE |-> 57, SEMI |-> 59,
       UA |-> 65, UZ |-> 90, USCORE |-> 95, BTICK |-> 96, LA |-> 97,
       LZ |-> 122, PIPE |-> 124, NBSP |-> 160,
       ZWSP |-> 8203, ZWJ |-> 8205, LSQ |-> 8216, RSQ |-> 8217,
       LDQ |-> 8220, RDQ |-> 8221, BOM |-> 65279, REPL |-> 65533]

IsDigit(c) == c >= Ch.ZERO /\ c <= Ch.NINE
IsLetter(c) == (c >= Ch.UA /\ c <= Ch.UZ) \/ (c >= Ch.LA /\ c <= Ch.LZ)

\* The characters String.prototype.trim and the regex class \s remove.
IsWhiteSpace(c) ==
  c \in {Ch.TAB, Ch.LF, Ch.VT, Ch.FF, Ch.CR, Ch.SP, Ch.NBSP, Ch.BOM,
         5760, 8232, 8233, 8239, 8287, 12288} \/ (c >= 8192 /\ c <= 8202)

ToLower(c) == IF c >= Ch.UA /\ c <= Ch.UZ THEN c + 32 ELSE c

(***************************************************************************)
(* Sequences                                                               *)
(***************************************************************************)
Min(a, b) == IF a <= b THEN a ELSE b

\* s.slice(k): the elements after the first k
Drop(s, k) == IF k >= Len(s) THEN <<>> ELSE SubSeq(s, k + 1, Len(s))

RECURSIVE SplitFrom(_, _, _, _)
SplitFrom(s, c, i, cur) ==
  IF i > Len(s) THEN <<cur>>
  ELSE IF s[i] = c THEN <<cur>> \o SplitFrom(s, c, i + 1, <<>>)
  ELSE SplitFrom(s, c, i + 1, Append(cur, s[i]))

\* s.split(c) for a one-character separator c
Split(s, c) == SplitFrom(s, c, 1, <<>>)

RECURSIVE JoinFrom(_, _, _)
JoinFrom(parts, sep, i) ==
  IF i > Len(parts) THEN <<>>
  ELSE IF i = Len(parts) THEN parts[i]
  ELSE parts[i] \o sep \o JoinFrom(parts, sep, i + 1)

\* parts.join(sep)
Join(parts, sep) == JoinFrom(parts, sep, 1)

\* line.trim() === ''
IsBlank(line) == \A i \in 1..Len(line) : IsWhiteSpace(line[i])

Count(s, c) == Cardinality({i \in 1..Len(s) : s[i] = c})

(***************************************************************************)
(* ByteClassifier: detectEncoding                                          *)
(***************************************************************************)
NullScanLimit == 1000
Utf8ScanLimit == 10000

Encodings == {"UTF-8", "UTF-16LE", "UTF-16BE", "UTF-32LE", "UTF-32BE",
              "Windows-1252", "ISO-8859-1"}

WIN1252_SPECIFIC ==
  {128, 130, 131, 132, 133, 134, 135, 136, 137, 138, 139, 140, 142, 145,
   146, 147, 148, 149, 150, 151, 152, 153, 154, 155, 156, 158, 159}

WIN1252_TO_UNICODE ==
  [b \in WIN1252_SPECIFIC |->
     CASE b = 128 -> 8364 [] b = 130 -> 8218 [] b = 131 -> 402
       [] b = 132 -> 8222 [] b = 133 -> 8230 [] b = 134 -> 8224
       [] b = 135 -> 8225 [] b = 136 -> 710  [] b = 137 -> 8240
       [] b = 138 -> 352  [] b = 139 -> 8249 [] b = 140 -> 338
       [] b = 142 -> 381  [] b = 145 -> 8216 [] b = 146 -> 8217
       [] b = 147 -> 8220 [] b = 148 -> 8221 [] b = 149 -> 8226
       [] b = 150 -> 8211 [] b = 151 -> 8212 [] b = 152 -> 732
       [] b = 153 -> 8482 [] b = 154 -> 353  [] b = 155 -> 8250
       [] b = 156 -> 339  [] b = 158 -> 382  [] b = 159 -> 376]

\* countNullBytes(bytes, length)
countNullBytes(b, length) == Cardinality({i \in 1..length : b[i] = 0})

\* countNullPositions(bytes, length); offsets are 0-based in the code
countNullPositions(b, length) ==
  [evenNulls |-> Cardinality({i \in 1..length : b[i] = 0 /\ (i - 1) % 2 = 0}),
   oddNulls  |-> Cardinality({i \in 1..length : b[i] = 0 /\ (i - 1) % 2 = 1})]

\* (byte & mask) === value, for a mask of the n high bits
HighBits(b, n) == b \div (2 ^ (8 - n))
IsCont(b) == HighBits(b, 2) = 2          \* (b & 0xC0) === 0x80

\* One turn of the while loop of detectEncodingHeuristic, from the state
\* s = [i, win, valid] of its three variables; i is the 1-based index.
Utf8Step(b, s) ==
  LET i    == s.i
      byte == b[i]
      w    == IF byte \in WIN1252_SPECIFIC THEN s.win + 1 ELSE s.win
  IN  IF byte >= 128 /\ HighBits(byte, 3) = 6
        THEN [i |-> i + 2, win |-> w,
              valid |-> s.valid /\ ~(i >= Len(b) \/ ~IsCont(b[i + 1]))]
      ELSE IF byte >= 128 /\ HighBits(byte, 4) = 14
        THEN [i |-> i + 3, win |-> w,
              valid |-> s.valid /\ ~(i + 1 >= Len(b) \/ ~IsCont(b[i + 1])
                                     \/ ~IsCont(b[i + 2]))]
      ELSE IF byte >= 128 /\ HighBits(byte, 5) = 30
        THEN [i |-> i + 4, win |-> w,
              valid |-> s.valid /\ ~(i + 2 >= Len(b) \/ ~IsCont(b[i + 1])
                                     \/ ~IsCont(b[i + 2]) \/ ~IsCont(b[i + 3]))]
      ELSE [i |-> i + 1, win |-> w,
            valid |-> s.valid /\ ~(byte >= 128 /\ ~IsCont(byte))]

\* The turns of the loop while i <= hi, from the state s: those up to the
\* middle of the stretch, then the rest from the state they leave, so that
\* the evaluation nests once per halving and not once per byte.
RECURSIVE Utf8Run(_, _, _)
Utf8Run(b, s, hi) ==
  IF s.i > hi THEN s
  ELSE IF s.i = hi THEN Utf8Step(b, s)
  ELSE Utf8Run(b, Utf8Run(b, s, (s.i + hi) \div 2), hi)

\* The while loop of detectEncodingHeuristic; i is the 1-based index.
Utf8Scan(b, i, win, valid) ==
  LET s == Utf8Run(b, [i |-> i, win |-> win, valid |-> valid],
                   Min(Utf8ScanLimit, Len(b)))
  IN  [win |-> s.win, valid |-> s.valid]

EncodingInfo(e, has, n) == [encoding |-> e, hasBOM |-> has, bomLength |-> n]

\* A heuristic whose last resort is ISO-8859-1, valid UTF-8 or not.
detectEncodingHeuristicLatin(b) ==
  LET n     == Min(NullScanLimit, Len(b))
      nulls == countNullPositions(b, n)
      scan  == Utf8Scan(b, 1, 0, TRUE)
  IN  IF countNullBytes(b, n) > 0
         /\ nulls.evenNulls * 4 > Len(b) /\ nulls.oddNulls * 20 < Len(b)
        THEN EncodingInfo("UTF-16LE", FALSE, 0)
      ELSE IF countNullBytes(b, n) > 0
         /\ nulls.oddNulls * 4 > Len(b) /\ nulls.evenNulls * 20 < Len(b)
        THEN EncodingInfo("UTF-16BE", FALSE, 0)
      ELSE IF scan.win > 0 /\ ~scan.valid
        THEN EncodingInfo("Windows-1252", FALSE, 0)
      ELSE EncodingInfo("ISO-8859-1", FALSE, 0)

detectEncodingHeuristic(b) ==
  LET n     == Min(NullScanLimit, Len(b))
      nulls == countNullPositions(b, n)
      scan  == Utf8Scan(b, 1, 0, TRUE)
  IN  IF countNullBytes(b, n) > 0
         /\ nulls.evenNulls * 4 > Len(b) /\ nulls.oddNulls * 20 < Len(b)
        THEN EncodingInfo("UTF-16LE", FALSE, 0)
      ELSE IF countNullBytes(b, n) > 0
         /\ nulls.oddNulls * 4 > Len(b) /\ nulls.evenNulls * 20 < Len(b)
        THEN EncodingInfo("UTF-16BE", FALSE, 0)
      ELSE IF scan.win > 0 /\ ~scan.valid
        THEN EncodingInfo("Windows-1252", FALSE, 0)
      ELSE IF scan.valid
        THEN EncodingInfo("UTF-8", FALSE, 0)
      ELSE EncodingInfo("ISO-8859-1", FALSE, 0)

StartsWith(b, sig) == Len(b) >= Len(sig) /\ SubSeq(b, 1, Len(sig)) = sig

\* A detection that looks for the two-byte signatures first.
detectEncodingShortFirst(b) ==
  IF StartsWith(b, <<255, 254>>) THEN EncodingInfo("UTF-16LE", TRUE, 2)
  ELSE IF StartsWith(b, <<254, 255>>) THEN EncodingInfo("UTF-16BE", TRUE, 2)
  ELSE IF StartsWith(b, <<255, 254, 0, 0>>) THEN EncodingInfo("UTF-32LE", TRUE, 4)
  ELSE IF StartsWith(b, <<0, 0, 254, 255>>) THEN EncodingInfo("UTF-32BE", TRUE, 4)
  ELSE IF StartsWith(b, <<239, 187, 191>>) THEN EncodingInfo("UTF-8", TRUE, 3)
  ELSE detectEncodingHeuristic(b)

detectEncoding(b) ==
  IF StartsWith(b, <<255, 254, 0, 0>>) THEN EncodingInfo("UTF-32LE", TRUE, 4)
  ELSE IF StartsWith(b, <<0, 0, 254, 255>>) THEN EncodingInfo("UTF-32BE", TRUE, 4)
  ELSE IF StartsWith(b, <<239, 187, 191>>) THEN EncodingInfo("UTF-8", TRUE, 3)
  ELSE IF StartsWith(b, <<255, 254>>) THEN EncodingInfo("UTF-16LE", TRUE, 2)
  ELSE IF StartsWith(b, <<254, 255>>) THEN EncodingInfo("UTF-16BE", TRUE, 2)
  ELSE detectEncodingHeuristic(b)

(***************************************************************************)
(* Decoder: decodeToUTF8                                                   *)
(***************************************************************************)
\* TextDecoder strips one leading U+FEFF of its own encoding (ignoreBOM is
\* false by default).
StripBOM(t) == IF Len(t) > 0 /\ t[1] = Ch.BOM THEN Tail(t) ELSE t

\* The UTF-8 decoder of the platform (WHATWG Encoding): ill-formed
\* sequences become U+FFFD and the offending byte is read again.
RECURSIVE Utf8Dec(_, _, _, _, _, _, _)
Utf8Dec(b, i, needed, seen, cp, lower, upper) ==
  IF i > Len(b) THEN (IF needed # 0 THEN <<Ch.REPL>> ELSE <<>>)
  ELSE LET x == b[i] IN
    IF needed = 0 THEN
      IF x <= 127 THEN <<x>> \o Utf8Dec(b, i + 1, 0, 0, 0, 128, 191)
      ELSE IF x >= 194 /\ x <= 223
        THEN Utf8Dec(b, i + 1, 1, 0, x % 32, 128, 191)
      ELSE IF x >= 224 /\ x <= 239
        THEN Utf8Dec(b, i + 1, 2, 0, x % 16,
                     IF x = 224 THEN 160 ELSE 128, IF x = 237 THEN 159 ELSE 191)
      ELSE IF x >= 240 /\ x <= 244
        THEN Utf8Dec(b, i + 1, 3, 0, x % 8,
                     IF x = 240 THEN 144 ELSE 128, IF x = 244 THEN 143 ELSE 191)
      ELSE <<Ch.REPL>> \o Utf8Dec(b, i + 1, 0, 0, 0, 128, 191)
    ELSE IF x < lower \/ x > upper
      THEN <<Ch.REPL>> \o Utf8Dec(b, i, 0, 0, 0, 128, 191)
    ELSE IF seen + 1 = needed
      THEN <<cp * 64 + (x % 64)>> \o Utf8Dec(b, i + 1, 0, 0, 0, 128, 191)
    ELSE Utf8Dec(b, i + 1, needed, seen + 1, cp * 64 + (x % 64), 128, 191)

\* new TextDecoder('utf-8').decode(bytes)
TextDecoderUtf8(b) == StripBOM(Utf8Dec(b, 1, 0, 0, 0, 128, 191))

IsLeadSurrogate(u) == u >= 55296 /\ u <= 56319
IsTrailSurrogate(u) == u >= 56320 /\ u <= 57343

\* The UTF-16 decoder of the platform: code units from byte pairs, a lone
\* surrogate or a trailing odd byte becomes U+FFFD.
RECURSIVE Utf16Dec(_, _, _)
Utf16Dec(b, i, le) ==
  IF i > Len(b) THEN <<>>
  ELSE IF i = Len(b) THEN <<Ch.REPL>>
  ELSE LET unit(k) == IF le THEN b[k] + 256 * b[k + 1] ELSE 256 * b[k] + b[k + 1]
           u == unit(i)
       IN  IF IsLeadSurrogate(u) THEN
             IF i + 3 <= Len(b) /\ IsTrailSurrogate(unit(i + 2))
               THEN <<65536 + (u - 55296) * 1024 + (unit(i + 2) - 56320)>>
                    \o Utf16Dec(b, i + 4, le)
             ELSE <<Ch.REPL>> \o Utf16Dec(b, i + 2, le)
           ELSE IF IsTrailSurrogate(u) THEN <<Ch.REPL>> \o Utf16Dec(b, i + 2, le)
           ELSE <<u>> \o Utf16Dec(b, i + 2, le)

\* new TextDecoder('utf-16le' | 'utf-16be').decode(bytes)
TextDecoderUtf16(b, le) == StripBOM(Utf16Dec(b, 1, le))

\* decodeWindows1252(bytes)
decodeWindows1252(b) ==
  [i \in 1..Len(b) |->
     IF b[i] \in WIN1252_SPECIFIC THEN WIN1252_TO_UNICODE[b[i]] ELSE b[i]]

\* new TextDecoder('iso-8859-1').decode(bytes): the platform maps the label
\* iso-8859-1 to its windows-1252 decoder.
TextDecoderLatin1(b) ==
  [i \in 1..Len(b) |->
     IF b[i] \in WIN1252_SPECIFIC THEN WIN1252_TO_UNICODE[b[i]] ELSE b[i]]

\* decodeUTF32(bytes, littleEndian).  The code combines the four bytes with
\* 32-bit signed shifts: a most significant byte of 128 or more makes the
\* code point negative.
RECURSIVE decodeUTF32From(_, _, _)
decodeUTF32From(b, i, littleEndian) ==
  IF i + 3 > Len(b) THEN <<>>
  ELSE LET top == IF littleEndian THEN b[i + 3] ELSE b[i]
           low == IF littleEndian
                    THEN b[i] + 256 * b[i + 1] + 65536 * b[i + 2]
                    ELSE 65536 * b[i + 1] + 256 * b[i + 2] + b[i + 3]
           negative  == top >= 128
           codePoint == IF negative THEN -1 ELSE low + 16777216 * top
       IN  (IF codePoint > 0 /\ codePoint <= 1114111 THEN <<codePoint>> ELSE <<>>)
           \o decodeUTF32From(b, i + 4, littleEndian)

decodeUTF32(b, littleEndian) == decodeUTF32From(b, 1, littleEndian)

\* decodeToUTF8(buffer, encoding, bomLength)
decodeToUTF8(buffer, encoding, bomLength) ==
  LET b == Drop(buffer, bomLength) IN
  CASE encoding = "UTF-8"        -> TextDecoderUtf8(b)
    [] encoding = "UTF-16LE"     -> TextDecoderUtf16(b, TRUE)
    [] encoding = "UTF-16BE"     -> TextDecoderUtf16(b, FALSE)
    [] encoding = "Windows-1252" -> decodeWindows1252(b)
    [] encoding = "ISO-8859-1"   -> TextDecoderLatin1(b)
    [] encoding = "UTF-32LE"     -> decodeUTF32(b, TRUE)
    [] encoding = "UTF-32BE"     -> decodeUTF32(b, FALSE)
    [] OTHER                     -> TextDecoderUtf8(b)

(***************************************************************************)
(* ContentSanitizer: normalizeLineEndings, cleanContent                    *)
(***************************************************************************)
\* content.replace(/\r\n/g, '\n')
RECURSIVE ReplaceCRLF(_, _)
ReplaceCRLF(t, i) ==
  IF i > Len(t) THEN <<>>
  ELSE IF t[i] = Ch.CR /\ i < Len(t) /\ t[i + 1] = Ch.LF
    THEN <<Ch.LF>> \o ReplaceCRLF(t, i + 2)
  ELSE <<t[i]>> \o ReplaceCRLF(t, i + 1)

\* replace(/c/g, d) for single characters
ReplaceChar(t, from, to) == [i \in 1..Len(t) |-> IF t[i] \in from THEN to ELSE t[i]]

\* replace(/[...]/g, '')
RemoveChars(t, set) ==
  LET Keep(c) == c \notin set IN SelectSeq(t, Keep)

normalizeLineEndings(content) ==
  ReplaceChar(ReplaceCRLF(content, 1), {Ch.CR}, Ch.LF)

\* line.replace(/(^|,)""([^"]*)""/g, '$1"$2"'); i is the 1-based position
\* where the next match is looked for.
RECURSIVE FixBoundaryQuotes(_, _)
FixBoundaryQuotes(line, i) ==
  IF i > Len(line) THEN <<>>
  ELSE LET IsDQ(k) == k <= Len(line) /\ line[k] = Ch.DQ
           \* the first position at or after k that holds a quote (or the end)
           NextDQ(k) == IF \E j \in k..Len(line) : line[j] = Ch.DQ
                          THEN CHOOSE j \in k..Len(line) :
                                 /\ line[j] = Ch.DQ
                                 /\ \A h \in k..(j - 1) : line[h] # Ch.DQ
                          ELSE Len(line) + 1
           \* a match whose opening quotes start at q ends at Close(q) + 1
           Close(q) == NextDQ(q + 2)
           Matches(q) == IsDQ(q) /\ IsDQ(q + 1)
                         /\ IsDQ(Close(q)) /\ IsDQ(Close(q) + 1)
           Fixed(q) == <<Ch.DQ>> \o SubSeq(line, q + 2, Close(q) - 1) \o <<Ch.DQ>>
       IN  IF i = 1 /\ Matches(1)                      \* ^ then ""..""
             THEN Fixed(1) \o FixBoundaryQuotes(line, Close(1) + 2)
           ELSE IF line[i] = Ch.COMMA /\ Matches(i + 1)  \* , then ""..""
             THEN <<Ch.COMMA>> \o Fixed(i + 1)
                  \o FixBoundaryQuotes(line, Close(i + 1) + 2)
           ELSE <<line[i]>> \o FixBoundaryQuotes(line, i + 1)

\* line.replace(/"{3,}/g, '"')
RECURSIVE CollapseQuoteRuns(_, _)
CollapseQuoteRuns(line, i) ==
  IF i > Len(line) THEN <<>>
  ELSE IF line[i] # Ch.DQ THEN <<line[i]>> \o CollapseQuoteRuns(line, i + 1)
  ELSE LET end == IF \E j \in i..Len(line) : line[j] # Ch.DQ
                    THEN (CHOOSE j \in i..Len(line) :
                            /\ line[j] # Ch.DQ
                            /\ \A h \in i..(j - 1) : line[h] = Ch.DQ) - 1
                    ELSE Len(line)
       IN  IF end - i + 1 >= 3
             THEN <<Ch.DQ>> \o CollapseQuoteRuns(line, end + 1)
             ELSE SubSeq(line, i, end) \o CollapseQuoteRuns(line, end + 1)

\* The end of the digits that start at k (the position after the last one)
RECURSIVE DigitsEnd(_, _)
DigitsEnd(line, k) ==
  IF k <= Len(line) /\ IsDigit(line[k]) THEN DigitsEnd(line, k + 1) ELSE k

\* line.replace(/"(\d+(?:\.\d+)?)"/g, (match, num, offset) => ...): the
\* quotes are dropped when an even number of quotes precedes the match in
\* the line the replace was called on.
RECURSIVE UnquoteNumbers(_, _)
UnquoteNumbers(line, i) ==
  IF i > Len(line) THEN <<>>
  ELSE LET d1 == DigitsEnd(line, i + 1)          \* after \d+
           d2 == IF d1 <= Len(line) /\ line[d1] = Ch.DOT
                      /\ DigitsEnd(line, d1 + 1) > d1 + 1
                   THEN DigitsEnd(line, d1 + 1) ELSE d1
           \* the position of the closing quote, 0 when there is no match
           close == IF line[i] = Ch.DQ /\ d1 > i + 1
                      THEN IF d2 <= Len(line) /\ line[d2] = Ch.DQ THEN d2
                           ELSE IF d1 <= Len(line) /\ line[d1] = Ch.DQ THEN d1
                           ELSE 0
                      ELSE 0
           quoteCount == Count(SubSeq(line, 1, i - 1), Ch.DQ)
       IN  IF close = 0 THEN <<line[i]>> \o UnquoteNumbers(line, i + 1)
           ELSE IF quoteCount % 2 = 0
             THEN SubSeq(line, i + 1, close - 1) \o UnquoteNumbers(line, close + 1)
           ELSE SubSeq(line, i, close) \o UnquoteNumbers(line, close + 1)

\* the function fixDoubleQuotedValues maps over the lines
FixLine(line) ==
  IF IsBlank(line) THEN line
  ELSE UnquoteNumbers(CollapseQuoteRuns(FixBoundaryQuotes(line, 1), 1), 1)

fixDoubleQuotedValues(content) ==
  LET lines == Split(content, Ch.LF) IN
  Join([i \in 1..Len(lines) |-> FixLine(lines[i])], <<Ch.LF>>)

cleanContent(content) ==
  LET noNul   == RemoveChars(content, {Ch.NUL})
      single  == ReplaceChar(noNul, {Ch.LSQ, Ch.RSQ}, Ch.SQ)
      double  == ReplaceChar(single, {Ch.LDQ, Ch.RDQ}, Ch.DQ)
      noZW    == RemoveChars(double, (Ch.ZWSP..Ch.ZWJ) \cup {Ch.BOM})
      noNbsp  == ReplaceChar(noZW, {Ch.NBSP}, Ch.SP)
  IN  fixDoubleQuotedValues(noNbsp)

\* normalizeLineEndings followed by cleanContent, as analyzeFile and
\* preprocessCSV apply them
Sanitize(content) == cleanContent(normalizeLineEndings(content))

(***************************************************************************)
(* RowTokenizer, DelimiterInferer, HeaderDetector                          *)
(***************************************************************************)
DelimiterSampleLines == 20
HeaderSampleLines == 30
HeaderParsedRows == 10

\* Rational numbers, for the scores and confidences the code computes in
\* floating point.
Frac(n, d) == [num |-> n, den |-> d]
FracLess(a, b) == a.num * b.den < b.num * a.den
FracMin1(a) == IF a.num > a.den THEN Frac(1, 1) ELSE a
Half == Frac(1, 2)

\* s.slice(0, k)
Take(s, k) == SubSeq(s, 1, Min(k, Len(s)))

\* content.split(/\r?\n/): a CR right before a LF belongs to the separator
SplitLines(content) ==
  LET parts == Split(content, Ch.LF)
      Strip(k) == IF k < Len(parts) /\ Len(parts[k]) > 0
                     /\ parts[k][Len(parts[k])] = Ch.CR
                    THEN SubSeq(parts[k], 1, Len(parts[k]) - 1)
                    ELSE parts[k]
  IN  [k \in 1..Len(parts) |-> Strip(k)]

\* .filter(line => line.trim().length > 0)
NonBlankLines(lines) ==
  LET Keep(l) == ~IsBlank(l) IN SelectSeq(lines, Keep)

\* countDelimitersOutsideQuotes(line, delimiter); quoteChar is 0 for null
RECURSIVE CountFrom(_, _, _, _, _)
CountFrom(line, delimiter, i, count, quoteChar) ==
  IF i > Len(line) THEN count
  ELSE LET char == line[i] IN
    IF quoteChar = 0 THEN
      IF char = Ch.DQ \/ char = Ch.SQ
        THEN CountFrom(line, delimiter, i + 1, count, char)
      ELSE IF char = delimiter
        THEN CountFrom(line, delimiter, i + 1, count + 1, 0)
      ELSE CountFrom(line, delimiter, i + 1, count, 0)
    ELSE IF char = quoteChar THEN
      IF i + 1 <= Len(line) /\ line[i + 1] = quoteChar
        THEN CountFrom(line, delimiter, i + 2, count, quoteChar)
      ELSE CountFrom(line, delimiter, i + 1, count, 0)
    ELSE CountFrom(line, delimiter, i + 1, count, quoteChar)

\* A count that takes the delimiters inside quoted spans too.
countDelimitersEverywhere(line, delimiter) == Count(line, delimiter)

\* A count for which a single quote opens no span.
countDelimitersDoubleQuoted(line, delimiter) ==
  CountFrom(ReplaceChar(line, {Ch.SQ}, 97), delimiter, 1, 0, 0)

countDelimitersOutsideQuotes(line, delimiter) ==
  CountFrom(line, delimiter, 1, 0, 0)

\* parseCSVLine(line, delimiter)
RECURSIVE ParseFrom(_, _, _, _, _, _)
ParseFrom(line, delimiter, i, result, current, quoteChar) ==
  IF i > Len(line) THEN Append(result, current)
  ELSE LET char == line[i] IN
    IF quoteChar = 0 THEN
      IF char = Ch.DQ \/ char = Ch.SQ
        THEN ParseFrom(line, delimiter, i + 1, result, current, char)
      ELSE IF char = delimiter
        THEN ParseFrom(line, delimiter, i + 1, Append(result, current), <<>>, 0)
      ELSE ParseFrom(line, delimiter, i + 1, result, Append(current, char), 0)
    ELSE IF char = quoteChar THEN
      IF i + 1 <= Len(line) /\ line[i + 1] = quoteChar
        THEN ParseFrom(line, delimiter, i + 2, result, Append(current, char), quoteChar)
      ELSE ParseFrom(line, delimiter, i + 1, result, current, 0)
    ELSE ParseFrom(line, delimiter, i + 1, result, Append(current, char), quoteChar)

\* A tokenizer that splits at every delimiter, quoted or not.
parseCSVLineUnquoted(line, delimiter) == Split(line, delimiter)

parseCSVLine(line, delimiter) == ParseFrom(line, delimiter, 1, <<>>, <<>>, 0)

Candidates == <<Ch.COMMA, Ch.TAB, Ch.SEMI, Ch.PIPE>>

RECURSIVE SumSeq(_, _)
SumSeq(s, i) == IF i > Len(s) THEN 0 ELSE s[i] + SumSeq(s, i + 1)

Abs(x) == IF x < 0 THEN -x ELSE x

\* scores[delim] of detectDelimiter, as an exact fraction:
\*   consistency * avgCount * (nonZeroCounts.length / lines.length) [* 1.1]
DelimiterScore(lines, delim) ==
  LET counts == [k \in 1..Len(lines) |-> countDelimitersOutsideQuotes(lines[k], delim)]
      nonZero == {k \in 1..Len(lines) : counts[k] > 0}
      n == Cardinality(nonZero)
      sum == SumSeq(counts, 1)
      \* Math.abs(c - avgCount) <= 1, with avgCount = sum / n
      consistent == Cardinality({k \in nonZero : Abs(counts[k] * n - sum) <= n})
  IN  IF n = 0 THEN Frac(0, 1)
      ELSE IF delim = Ch.COMMA
        THEN Frac(11 * consistent * sum, 10 * n * Len(lines))
      ELSE Frac(10 * consistent * sum, 10 * n * Len(lines))

\* A loop that takes a candidate whose score is not below the best so far.
RECURSIVE BestFromLast(_, _, _, _)
BestFromLast(lines, k, bestDelim, bestScore) ==
  IF k > Len(Candidates) THEN [delimiter |-> bestDelim, score |-> bestScore]
  ELSE LET score == DelimiterScore(lines, Candidates[k])
       IN  IF ~FracLess(score, bestScore)
             THEN BestFromLast(lines, k + 1, Candidates[k], score)
             ELSE BestFromLast(lines, k + 1, bestDelim, bestScore)

\* the loop that finds the best delimiter, over Object.entries(scores)
RECURSIVE BestFrom(_, _, _, _)
BestFrom(lines, k, bestDelim, bestScore) ==
  IF k > Len(Candidates) THEN [delimiter |-> bestDelim, score |-> bestScore]
  ELSE LET score == DelimiterScore(lines, Candidates[k])
       IN  IF FracLess(bestScore, score)
             THEN BestFrom(lines, k + 1, Candidates[k], score)
             ELSE BestFrom(lines, k + 1, bestDelim, bestScore)

detectDelimiter(content) ==
  LET lines == Take(NonBlankLines(SplitLines(content)), DelimiterSampleLines)
      best == BestFrom(lines, 1, Ch.COMMA, Frac(0, 1))
  IN  IF Len(lines) = 0 THEN [delimiter |-> Ch.COMMA, confidence |-> Frac(0, 1)]
      ELSE [delimiter |-> best.delimiter,
            confidence |-> FracMin1(Frac(best.score.num, 10 * best.score.den))]

\* val.trim()
RECURSIVE TrimLeft(_)
TrimLeft(s) == IF Len(s) > 0 /\ IsWhiteSpace(s[1]) THEN TrimLeft(Tail(s)) ELSE s
RECURSIVE TrimRight(_)
TrimRight(s) ==
  IF Len(s) > 0 /\ IsWhiteSpace(s[Len(s)])
    THEN TrimRight(SubSeq(s, 1, Len(s) - 1)) ELSE s
Trim(s) == TrimRight(TrimLeft(s))

\* A numeric test that wants digits from the first character to the last.
ParsesAsNumberWhole(val) ==
  Len(val) > 0 /\ \A i \in 1..Len(val) : IsDigit(val[i])

\* !isNaN(parseFloat(val)): after leading white space and an optional sign
\* the text starts with a digit, with a dot and a digit, or with Infinity
ParsesAsNumber(val) ==
  LET t == TrimLeft(val)
      u == IF Len(t) > 0 /\ t[1] \in {Ch.PLUS, Ch.MINUS} THEN Tail(t) ELSE t
  IN  \/ Len(u) >= 1 /\ IsDigit(u[1])
      \/ Len(u) >= 2 /\ u[1] = Ch.DOT /\ IsDigit(u[2])
      \/ StartsWith(u, <<73, 110, 102, 105, 110, 105, 116, 121>>)

LowerTrim(v) == Trim([i \in 1..Len(v) |-> ToLower(v[i])])

\* detectHeader, from the parsed rows on
HeaderOfRows(rows) ==
  LET firstRow == rows[1]
      dataRows == Drop(rows, 1)
      IsNum(v) == ParsesAsNumber(v) /\ ~IsBlank(v)
      firstRowAllText ==
        \A i \in 1..Len(firstRow) : ~ParsesAsNumber(firstRow[i]) \/ IsBlank(firstRow[i])
      uniqueFirst == Cardinality({LowerTrim(firstRow[i]) : i \in 1..Len(firstRow)})
      typeChanges ==
        Cardinality({i \in 1..Min(Len(firstRow), Len(dataRows[1])) :
                       ~IsNum(firstRow[i]) /\ IsNum(dataRows[1][i])})
      hasLetters ==
        \E i \in 1..Len(firstRow) : \E j \in 1..Len(firstRow[i]) : IsLetter(firstRow[i][j])
      headerScore ==
          (IF firstRowAllText THEN 2 ELSE 0)
        + (IF uniqueFirst = Len(firstRow) THEN 1 ELSE 0)
        + (IF Len(dataRows) > 0 /\ typeChanges * 3 > Len(firstRow) THEN 2 ELSE 0)
        + (IF hasLetters THEN 1 ELSE 0)
  IN  IF Len(firstRow) = 0
        THEN [hasHeader |-> TRUE, headerRowIndex |-> 0, confidence |-> Frac(1, 2)]
      ELSE [hasHeader |-> headerScore >= 2, headerRowIndex |-> 0,
            confidence |-> FracMin1(Frac(headerScore, 5))]

\* detectHeader, from the sampled lines on
HeaderOfLines(lines, delimiter) ==
  IF Len(lines) < 2
    THEN [hasHeader |-> TRUE, headerRowIndex |-> 0, confidence |-> Frac(1, 2)]
    ELSE HeaderOfRows([k \in 1..Min(HeaderParsedRows, Len(lines)) |->
                         parseCSVLine(lines[k], delimiter)])

detectHeader(content, delimiter) ==
  HeaderOfLines(Take(NonBlankLines(SplitLines(content)), HeaderSampleLines), delimiter)

(***************************************************************************)
(* detectFileFormat, parseExcelFile, analyzeFile, generateWarnings         *)
(***************************************************************************)
LargeFileLines == 100000

Ext == [csv  |-> <<99, 115, 118>>,       tsv  |-> <<116, 115, 118>>,
        txt  |-> <<116, 120, 116>>,      xlsx |-> <<120, 108, 115, 120>>,
        xls  |-> <<120, 108, 115>>,      xlsb |-> <<120, 108, 115, 98>>,
        json |-> <<106, 115, 111, 110>>,
        parquet |-> <<112, 97, 114, 113, 117, 101, 116>>]

MsgXlsb == "Excel binary files (.xlsb) are not supported. Please save as .xlsx or CSV in Excel."
MsgJson == "JSON files are not yet supported. Please convert to CSV format."
MsgParquet == "Parquet files are not yet supported in the browser version."
MsgNoSheets == "Excel file contains no sheets"
MsgSheetNotFound == "Sheet not found"
MsgExcelParse == "Failed to parse Excel file"

WarnWin1252 == "File appears to use Windows-1252 encoding. Some characters may have been converted."
WarnSemicolon == "Detected semicolon delimiter (European CSV format)."
WarnDelimiter == "Low confidence in delimiter detection. Data may not parse correctly."
WarnHeader == "Header row detection uncertain. First row may be treated as data."
WarnLarge == "Large file detected. Loading may take a moment."
WarnSheets == "Excel file has several sheets. Using the first. Other sheets are ignored."

FormatInfo(f, can, excel, msg) ==
  [format |-> f, canProcess |-> can, isExcel |-> excel, message |-> msg]

\* A format table that takes .json for delimited text.
detectFileFormatJsonAsText(file) ==
  LET name == [i \in 1..Len(file.name) |-> ToLower(file.name[i])]
      parts == Split(name, Ch.DOT)
      ext == parts[Len(parts)]
  IN  CASE ext = Ext.xlsx    -> FormatInfo("excel", TRUE, TRUE, "")
        [] ext = Ext.xls     -> FormatInfo("excel-legacy", TRUE, TRUE, "")
        [] ext = Ext.xlsb    -> FormatInfo("excel-binary", FALSE, FALSE, MsgXlsb)
        [] ext = Ext.parquet -> FormatInfo("parquet", FALSE, FALSE, MsgParquet)
        [] OTHER             -> FormatInfo("text", TRUE, FALSE, "")

\* detectFileFormat(file): the extension is what follows the last dot of the
\* lower-cased name
detectFileFormat(file) ==
  LET name == [i \in 1..Len(file.name) |-> ToLower(file.name[i])]
      parts == Split(name, Ch.DOT)
      ext == parts[Len(parts)]
  IN  CASE ext = Ext.csv     -> FormatInfo("csv", TRUE, FALSE, "")
        [] ext = Ext.tsv     -> FormatInfo("tsv", TRUE, FALSE, "")
        [] ext = Ext.txt     -> FormatInfo("text", TRUE, FALSE, "")
        [] ext = Ext.xlsx    -> FormatInfo("excel", TRUE, TRUE, "")
        [] ext = Ext.xls     -> FormatInfo("excel-legacy", TRUE, TRUE, "")
        [] ext = Ext.xlsb    -> FormatInfo("excel-binary", FALSE, FALSE, MsgXlsb)
        [] ext = Ext.json    -> FormatInfo("json", FALSE, FALSE, MsgJson)
        [] ext = Ext.parquet -> FormatInfo("parquet", FALSE, FALSE, MsgParquet)
        [] OTHER             -> FormatInfo("unknown", TRUE, FALSE, "")

\* parseExcelFile(buffer): the workbook the XLSX library reads from the
\* buffer is part of the file; csv is what sheet_to_csv gives for its first
\* sheet.
parseExcelFile(workbook) ==
  IF ~workbook.readable
    THEN [success |-> FALSE, error |-> MsgExcelParse, content |-> <<>>, sheetCount |-> 0]
  ELSE IF Len(workbook.sheetNames) = 0
    THEN [success |-> FALSE, error |-> MsgNoSheets, content |-> <<>>, sheetCount |-> 0]
  ELSE [success |-> TRUE, error |-> "", content |-> workbook.csv,
        sheetCount |-> Len(workbook.sheetNames)]

\* generateWarnings(encodingInfo, delimiterInfo, headerInfo, lines)
generateWarnings(encodingInfo, delimiterInfo, headerInfo, lines) ==
     (IF encodingInfo.encoding = "Windows-1252" THEN <<WarnWin1252>> ELSE <<>>)
  \o (IF delimiterInfo.delimiter = Ch.SEMI THEN <<WarnSemicolon>> ELSE <<>>)
  \o (IF FracLess(delimiterInfo.confidence, Half) THEN <<WarnDelimiter>> ELSE <<>>)
  \o (IF ~headerInfo.hasHeader \/ FracLess(headerInfo.confidence, Half)
        THEN <<WarnHeader>> ELSE <<>>)
  \o (IF Len(lines) > LargeFileLines THEN <<WarnLarge>> ELSE <<>>)

AnalysisFailure(msg, fmt) ==
  [success |-> FALSE, error |-> msg, format |-> fmt, encoding |-> "",
   delimiter |-> Ch.COMMA, delimiterConfidence |-> Frac(0, 1),
   hasHeader |-> FALSE, headerConfidence |-> Frac(0, 1), content |-> <<>>,
   sheetCount |-> 0, warnings |-> <<>>]

\* analyzeFile, once the content is decoded and cleaned and the delimiter
\* and the header are detected; warnings is what the path has collected
Analysis(formatInfo, encoding, sheetCount, content, delimiterInfo, headerInfo, warnings) ==
  [success |-> TRUE, error |-> "", format |-> formatInfo.format,
   encoding |-> encoding,
   delimiter |-> delimiterInfo.delimiter,
   delimiterConfidence |-> delimiterInfo.confidence,
   hasHeader |-> headerInfo.hasHeader,
   headerConfidence |-> headerInfo.confidence,
   content |-> content, sheetCount |-> sheetCount, warnings |-> warnings]

\* analyzeFile, Excel path, from the normalized content on
ExcelAnalysis(formatInfo, excelResult, normalizedContent, delimiterInfo) ==
  Analysis(formatInfo, "excel", excelResult.sheetCount, normalizedContent,
           delimiterInfo, detectHeader(normalizedContent, delimiterInfo.delimiter),
           IF excelResult.sheetCount > 1 THEN <<WarnSheets>> ELSE <<>>)

\* analyzeFile, text path, from the normalized content on
TextAnalysis(formatInfo, encodingInfo, normalizedContent, delimiterInfo, headerInfo) ==
  Analysis(formatInfo, encodingInfo.encoding, 0, normalizedContent,
           delimiterInfo, headerInfo,
           generateWarnings(encodingInfo, delimiterInfo, headerInfo,
                            NonBlankLines(Split(normalizedContent, Ch.LF))))

\* analyzeFile, Excel path
analyzeExcel(formatInfo, excelResult, normalizedContent) ==
  IF ~excelResult.success
    THEN AnalysisFailure(excelResult.error, formatInfo.format)
    ELSE ExcelAnalysis(formatInfo, excelResult, normalizedContent,
                       detectDelimiter(normalizedContent))

\* analyzeFile, text path, from the delimiter on
TextWithDelimiter(formatInfo, encodingInfo, normalizedContent, delimiterInfo) ==
  TextAnalysis(formatInfo, encodingInfo, normalizedContent, delimiterInfo,
               detectHeader(normalizedContent, delimiterInfo.delimiter))

\* analyzeFile, text path
analyzeText(formatInfo, encodingInfo, normalizedContent) ==
  TextWithDelimiter(formatInfo, encodingInfo, normalizedContent,
                    detectDelimiter(normalizedContent))

\* analyzeFile, once the format is known
analyzeFormat(file, formatInfo, excelResult, encodingInfo) ==
  IF ~formatInfo.canProcess
    THEN AnalysisFailure(formatInfo.message, formatInfo.format)
  ELSE IF formatInfo.isExcel
    THEN analyzeExcel(formatInfo, excelResult,
                      cleanContent(normalizeLineEndings(excelResult.content)))
  ELSE analyzeText(formatInfo, encodingInfo,
                   cleanContent(normalizeLineEndings(
                     decodeToUTF8(file.bytes, encodingInfo.encoding,
                                  encodingInfo.bomLength))))

\* analyzeFile(file)
analyzeFile(file) ==
  analyzeFormat(file, detectFileFormat(file), parseExcelFile(file.workbook),
                detectEncoding(file.bytes))

(***************************************************************************)
(* DuckDBEngine: the pure parts                                            *)
(***************************************************************************)
NameLimit == 64

\* An options block that puts the custom headers in front of all the lines.
ApplyLoadOptionsKeepingRows(content, delimiter, options) ==
  LET lines == Split(content, Ch.LF)
      dataLines == Drop(lines, options.skipRows)
  IN  IF options.hasCustom
        THEN Join(<<Join(options.customHeaders, <<delimiter>>)>> \o lines, <<Ch.LF>>)
      ELSE IF options.skipRows > 0
        THEN Join(dataLines, <<Ch.LF>>)
      ELSE content

\* The skipRows / customHeaders block of loadFile.  options.customHeaders is
\* null when hasCustom is false.
ApplyLoadOptions(content, delimiter, options) ==
  LET lines == Split(content, Ch.LF)
      dataLines == Drop(lines, options.skipRows)
  IN  IF options.hasCustom
        THEN Join(<<Join(options.customHeaders, <<delimiter>>)>> \o dataLines, <<Ch.LF>>)
      ELSE IF options.skipRows > 0
        THEN Join(dataLines, <<Ch.LF>>)
      ELSE content

\* preprocessCSV(content)
preprocessCSV(content) == StripBOM(cleanContent(normalizeLineEndings(content)))

\* filename.replace(/\.[^/.]+$/, ''): the last dot and what follows it, when
\* that is not empty and holds no slash
RemoveExtension(filename) ==
  LET dots == {i \in 1..Len(filename) : filename[i] = Ch.DOT}
      last == CHOOSE i \in dots : \A j \in dots : j <= i
  IN  IF dots # {} /\ last < Len(filename)
         /\ \A j \in (last + 1)..Len(filename) : filename[j] # 47
        THEN SubSeq(filename, 1, last - 1)
        ELSE filename

IsWordChar(c) == IsLetter(c) \/ IsDigit(c) \/ c = Ch.USCORE

\* sanitizeTableName(filename)
sanitizeTableName(filename) ==
  LET noExt == RemoveExtension(filename)
      safe == [i \in 1..Len(noExt) |-> IF IsWordChar(noExt[i]) THEN noExt[i] ELSE Ch.USCORE]
      prefixed == IF Len(safe) > 0 /\ IsDigit(safe[1]) THEN <<Ch.USCORE>> \o safe ELSE safe
  IN  Take([i \in 1..Len(prefixed) |-> ToLower(prefixed[i])], NameLimit)

\* replace(/\s+/g, ' ') and replace(/[\r\n]+/g, ' '): every run of
\* characters of the class (newline: TRUE for [\r\n], FALSE for \s) becomes
\* one space
CollapseRuns(t, newline, i) ==
  LET InClass(c) == IF newline THEN c \in {Ch.CR, Ch.LF} ELSE IsWhiteSpace(c)
      Kept(c) == c # -1
      marked == [k \in 1..Len(t) |->
                   IF ~InClass(t[k]) THEN t[k]
                   ELSE IF k > 1 /\ InClass(t[k - 1]) THEN -1 ELSE Ch.SP]
  IN  SelectSeq(SubSeq(marked, i, Len(t)), Kept)

\* DuckDBEngine.sanitizeColumnName(colName)
EngineSanitizeColumnName(colName) ==
  LET a == CollapseRuns(colName, TRUE, 1)
      b == RemoveChars(a, {Ch.DQ, Ch.SQ, Ch.BTICK})
      c == CollapseRuns(b, FALSE, 1)
  IN  Take(Trim(c), NameLimit)

(***************************************************************************)
(* ColumnNameSanitizer: sanitizeColumnName, makeUniqueColumnNames          *)
(***************************************************************************)
ColumnNameLimit == 64

\* 'column'
ColumnLiteral == <<99, 111, 108, 117, 109, 110>>

\* What a caller passes that is not a string (null, undefined, a number): a
\* sequence that holds no character.
NotAString == <<-1>>

\* replace(/\s+/g, '_') and replace(/_+/g, '_'): every run of characters of
\* the class (space: TRUE for \s, FALSE for _) becomes one underscore
UnderscoreRuns(t, space, i) ==
  LET InClass(c) == IF space THEN IsWhiteSpace(c) ELSE c = Ch.USCORE
      Kept(c) == c # -1
      marked == [k \in 1..Len(t) |->
                   IF ~InClass(t[k]) THEN t[k]
                   ELSE IF k > 1 /\ InClass(t[k - 1]) THEN -1 ELSE Ch.USCORE]
  IN  SelectSeq(SubSeq(marked, i, Len(t)), Kept)

\* replace(/^_|_$/g, '')
StripUnderscores(t) ==
  LET head == IF Len(t) > 0 /\ t[1] = Ch.USCORE THEN Tail(t) ELSE t
  IN  IF Len(head) > 0 /\ head[Len(head)] = Ch.USCORE
        THEN SubSeq(head, 1, Len(head) - 1) ELSE head

\* sanitizeColumnName, the two chains of replacements
ReplacedName(name) ==
  LET trimmed  == Trim(CollapseRuns(CollapseRuns(name, TRUE, 1), FALSE, 1))
      unquoted == RemoveChars(trimmed, {Ch.DQ, Ch.SQ, Ch.BTICK})
      special  == [i \in 1..Len(unquoted) |->
                     IF IsWordChar(unquoted[i]) \/ IsWhiteSpace(unquoted[i])
                        \/ unquoted[i] = Ch.MINUS
                       THEN unquoted[i] ELSE Ch.USCORE]
  IN  StripUnderscores(UnderscoreRuns(UnderscoreRuns(special, TRUE, 1), FALSE, 1))

\* A sanitizer that leaves a leading digit as it is.
sanitizeColumnNameUnprefixed(name) ==
  IF name = NotAString \/ name = <<>> THEN ColumnLiteral
  ELSE Take(IF ReplacedName(name) = <<>> THEN ColumnLiteral ELSE ReplacedName(name),
            ColumnNameLimit)

\* sanitizeColumnName, from the replaced name on: the prefix for a leading
\* digit, 'column' for the empty name, the length limit
FinishedName(sanitized) ==
  LET prefixed == IF Len(sanitized) > 0 /\ IsDigit(sanitized[1])
                    THEN <<Ch.USCORE>> \o sanitized ELSE sanitized
  IN  Take(IF prefixed = <<>> THEN ColumnLiteral ELSE prefixed, ColumnNameLimit)

\* sanitizeColumnName(name)
sanitizeColumnName(name) ==
  IF name = NotAString \/ name = <<>> THEN ColumnLiteral
  ELSE FinishedName(ReplacedName(name))

\* Maps (the registry, the tables and files of a database, the map seen)
EmptyMap == [x \in {} |-> 0]
Put(m, k, v) == [x \in (DOMAIN m) \cup {k} |-> IF x = k THEN v ELSE m[x]]
Del(m, k) == [x \in (DOMAIN m) \ {k} |-> m[x]]

\* `${counter}`: the decimal digits of a number
RECURSIVE Decimal(_)
Decimal(n) ==
  IF n < 10 THEN <<Ch.ZERO + n>>
  ELSE Decimal(n \div 10) \o <<Ch.ZERO + (n % 10)>>

\* A key that tells upper case from lower case.
SeenKeyExact(baseName) == baseName

\* baseName.toLowerCase(), the key of the map seen
SeenKey(baseName) == [i \in 1..Len(baseName) |-> ToLower(baseName[i])]

\* the loop of makeUniqueColumnNames; seen maps a key to its counter
RECURSIVE UniqueFrom(_, _, _, _)
UniqueFrom(names, i, seen, result) ==
  IF i > Len(names) THEN result
  ELSE LET name == IF names[i] = NotAString \/ IsBlank(names[i])
                     THEN ColumnLiteral ELSE names[i]
           counter == IF SeenKey(name) \in DOMAIN seen THEN seen[SeenKey(name)] ELSE 0
           finalName == IF counter > 0
                          THEN name \o <<Ch.USCORE>> \o Decimal(counter) ELSE name
       IN  UniqueFrom(names, i + 1, Put(seen, SeenKey(name), counter + 1),
                      Append(result, finalName))

\* makeUniqueColumnNames(names)
makeUniqueColumnNames(names) == UniqueFrom(names, 1, EmptyMap, <<>>)

(***************************************************************************)
(* DuckDBEngine: the operations, one action for each stretch of code       *)
(* between two awaits                                                      *)
(***************************************************************************)
MaxOps == 3          \* operations called in one run
\* The calls of a run are made one after the other, each awaited before the
\* next: one call slot.
Slots == {1}

Strategies == <<"detected", "all_varchar", "minimal", "auto">>

NoWorkbook == [readable |-> FALSE, sheetNames |-> <<>>, csv |-> <<>>]

\* a.txt: "a;b" / "\x80;\xE9" in Windows-1252
FileSemi == [name |-> <<97, 46, 116, 120, 116>>,
             bytes |-> <<97, 59, 98, 10, 128, 59, 233>>, workbook |-> NoWorkbook]
\* A.csv: "a,b,c,d,e,f" / "1,2,3,4,5,6"
FileWide == [name |-> <<65, 46, 99, 115, 118>>,
             bytes |-> <<97, 44, 98, 44, 99, 44, 100, 44, 101, 44, 102, 10,
                         49, 44, 50, 44, 51, 44, 52, 44, 53, 44, 54>>,
             workbook |-> NoWorkbook]
\* b.xlsx: two sheets, the first one holds the single column "1" / "2"
FileXlsx == [name |-> <<98, 46, 120, 108, 115, 120>>, bytes |-> <<80, 75>>,
             workbook |-> [readable |-> TRUE, sheetNames |-> <<"Sheet1", "Sheet2">>,
                           csv |-> <<49, 10, 50>>]]
\* n.xls: a workbook without sheets
FileNoSheets == [name |-> <<110, 46, 120, 108, 115>>, bytes |-> <<80, 75>>,
                 workbook |-> [readable |-> TRUE, sheetNames |-> <<>>, csv |-> <<>>]]
\* c.xlsb, d.JSON, e.parquet
FileXlsb == [name |-> <<99, 46, 120, 108, 115, 98>>, bytes |-> <<80, 75>>,
             workbook |-> NoWorkbook]
FileJson == [name |-> <<100, 46, 74, 83, 79, 78>>, bytes |-> <<123, 125>>,
             workbook |-> NoWorkbook]
FileParquet == [name |-> <<101, 46, 112, 97, 114, 113, 117, 101, 116>>,
                bytes |-> <<80, 65, 82, 49>>, workbook |-> NoWorkbook]

LoaderFiles == {FileSemi, FileWide, FileXlsx, FileNoSheets, FileXlsb, FileJson,
                FileParquet}

DefaultOptions == [skipRows |-> 0, hasCustom |-> FALSE, customHeaders |-> <<>>]
\* what loadFileSmart passes for a two-row header: skip it, name the columns x, y
MergedOptions == [skipRows |-> 1, hasCustom |-> TRUE,
                  customHeaders |-> << <<120>>, <<121>> >>]
\* the loadFile calls of a run: every file with the default options, and the
\* wide file also with the merged header
LoadCalls ==
  {[file |-> f, options |-> DefaultOptions] : f \in LoaderFiles}
  \cup {[file |-> FileWide, options |-> MergedOptions]}

\* loadCSVString("h,k\r\n1,2", "a")
CsvStrings == { <<104, 44, 107, 13, 10, 49, 44, 50>> }
CsvTableNames == { <<97>> }
\* dropTable("a"), dropTable("b")
DropNames == { <<97>>, <<98>> }

\* The column names read_csv may give the table: clean ones, or ones that
\* sanitizeColumnNames renames (" a" and "b'!"), or ones whose renaming runs
\* into a column that exists ("a'" and "a").
ColumnChoices == { << <<97>>, <<98>> >>, << <<32, 97>>, <<98, 39, 33>> >>,
                   << <<97, 39>>, <<97>> >> }

NoError == [kind |-> "none", message |-> "", strategy |-> 0]
AnalysisError(msg) == [kind |-> "analysis", message |-> msg, strategy |-> 0]
\* the error the engine raised during the attempt of strategy i
EngineError(i) == [kind |-> "engine", message |-> "", strategy |-> i]
\* this.conn is null: a TypeError
NullError == [kind |-> "type", message |-> "", strategy |-> 0]

NoResult == [status |-> "none", tableName |-> <<>>, rowCount |-> 0, strategy |-> "",
             encoding |-> "", delimiter |-> 0, warnings |-> <<>>, error |-> NoError]
ErrorResult(err) == [NoResult EXCEPT !.status = "error", !.error = err]

NoFile == [name |-> <<>>, bytes |-> <<>>, workbook |-> NoWorkbook]

\* The record of a call: its arguments, where it stands (pc), its locals, and
\* what it has done so far: the strategies it started (attempts), the
\* strategy whose rename failed first (renameFailedAt), the strategy that
\* created the table (createdBy) and the columns read_csv gave it (columns),
\* the registry as the call found it.
Idle == [op |-> "idle", pc |-> "idle", file |-> NoFile, csvString |-> <<>>,
         tableName |-> <<>>, options |-> DefaultOptions, name |-> <<>>,
         analysis |-> AnalysisFailure("", ""), content |-> <<>>, delimiter |-> 0,
         strategy |-> 0, attempts |-> <<>>, lastError |-> NoError,
         renames |-> <<>>, renameFailedAt |-> 0, createdBy |-> 0,
         columns |-> <<>>, connTo |-> 0,
         registryAtStart |-> EmptyMap, result |-> NoResult]

\* A database is usable when it exists and close() has not reached it.
Alive(d) == d # 0 /\ d \notin dead

\* How a call to the engine may end when the state of the engine lets it
\* succeed (possible) or not: it fails when it has to, and, in the runs
\* whose calls are made one after the other, also when it need not.  In the
\* runs whose calls overlap it fails only when it has to.
Outcomes(possible) ==
  IF ~possible THEN {FALSE}
  ELSE IF DOMAIN calls = Slots THEN BOOLEAN
  ELSE {TRUE}

\* the rows read_csv(header=true) reads: the lines after the header line
DataRows(t) ==
  LET n == Len(NonBlankLines(Split(t, Ch.LF))) IN IF n > 0 THEN n - 1 ELSE 0

\* A loop that goes from detected straight to minimal.
CatchSkip(cl) ==
  LET err == EngineError(cl.strategy) IN
  IF cl.strategy = Len(Strategies)
    THEN [cl EXCEPT !.pc = "done", !.lastError = err, !.result = ErrorResult(err)]
    ELSE [cl EXCEPT !.pc = "register", !.strategy = IF @ = 1 THEN 3 ELSE @ + 1,
                    !.lastError = err, !.renames = <<>>]

\* A catch block that keeps the first error instead of the last.
CatchKeepFirst(cl) ==
  LET err == IF cl.lastError.kind = "none" THEN EngineError(cl.strategy)
             ELSE cl.lastError
  IN
  IF cl.strategy = Len(Strategies)
    THEN [cl EXCEPT !.pc = "done", !.lastError = err, !.result = ErrorResult(err)]
    ELSE [cl EXCEPT !.pc = "register", !.strategy = @ + 1, !.lastError = err,
                    !.renames = <<>>]

\* The catch block of the strategy loop and the loop's step: remember the
\* error; go on with the next strategy, or throw lastError after the last.
CatchNext(cl) ==
  LET err == EngineError(cl.strategy) IN
  IF cl.strategy = Len(Strategies)
    THEN [cl EXCEPT !.pc = "done", !.lastError = err, !.result = ErrorResult(err)]
    ELSE [cl EXCEPT !.pc = "register", !.strategy = @ + 1, !.lastError = err,
                    !.renames = <<>>]

\* the renames sanitizeColumnNames collects from the schema
RECURSIVE RenamesFrom(_, _)
RenamesFrom(columns, i) ==
  IF i > Len(columns) THEN <<>>
  ELSE (IF EngineSanitizeColumnName(columns[i]) # columns[i]
          THEN <<[old |-> columns[i], new |-> EngineSanitizeColumnName(columns[i])]>>
          ELSE <<>>)
       \o RenamesFrom(columns, i + 1)

\* the LoadResult of loadFile / loadCSVString
LoadResult(cl, rowCount) ==
  [status |-> "ok", tableName |-> cl.name, rowCount |-> rowCount,
   strategy |-> Strategies[cl.strategy],
   encoding |-> IF cl.op = "loadFile" THEN cl.analysis.encoding ELSE "",
   delimiter |-> cl.delimiter,
   warnings |-> IF cl.op = "loadFile" THEN cl.analysis.warnings ELSE <<>>,
   error |-> NoError]

\* the registry entry this.tables.set stores (loadedAt, the time, left out)
RegistryEntry(cl, rowCount) ==
  [originalName |-> IF cl.op = "loadFile" THEN cl.file.name ELSE cl.tableName,
   rowCount |-> rowCount,
   encoding |-> IF cl.op = "loadFile" THEN cl.analysis.encoding ELSE "",
   delimiter |-> cl.delimiter]

\* A new call takes the lowest free slot.
CanStart(c) ==
  /\ ops < MaxOps
  /\ calls[c].op = "idle"
  /\ \A d \in Slots : d < c => calls[d].op # "idle"

Step(c, cl) == calls' = [calls EXCEPT ![c] = cl]

StartLoadFile(c) ==
  /\ CanStart(c)
  /\ \E a \in LoadCalls :
       Step(c, [Idle EXCEPT !.op = "loadFile", !.pc = "init", !.file = a.file,
                            !.options = a.options,
                            !.registryAtStart = tables])
  /\ ops' = ops + 1
  /\ UNCHANGED <<initialized, db, conn, tables, workers, dead, dbFiles, dbTables>>

StartLoadCSVString(c) ==
  /\ CanStart(c)
  /\ \E t \in CsvStrings, n \in CsvTableNames :
       Step(c, [Idle EXCEPT !.op = "loadCSVString", !.pc = "init",
                            !.csvString = t, !.tableName = n,
                            !.registryAtStart = tables])
  /\ ops' = ops + 1
  /\ UNCHANGED <<initialized, db, conn, tables, workers, dead, dbFiles, dbTables>>

StartDropTable(c) ==
  /\ CanStart(c)
  /\ \E n \in DropNames :
       Step(c, [Idle EXCEPT !.op = "dropTable", !.pc = "drop", !.name = n,
                            !.registryAtStart = tables])
  /\ ops' = ops + 1
  /\ UNCHANGED <<initialized, db, conn, tables, workers, dead, dbFiles, dbTables>>

StartClose(c) ==
  /\ CanStart(c)
  /\ Step(c, [Idle EXCEPT !.op = "close", !.pc = "close", !.registryAtStart = tables])
  /\ ops' = ops + 1
  /\ UNCHANGED <<initialized, db, conn, tables, workers, dead, dbFiles, dbTables>>

\* init() has returned: the operation that awaited it goes on; the caller
\* of init() itself has its result
AfterInit(cl) ==
  IF cl.op = "init" THEN [cl EXCEPT !.pc = "done", !.result.status = "ok"]
  ELSE [cl EXCEPT !.pc = "analyze"]

\* if (!this.initialized) await this.init(), up to init's first await
EnsureInit(c) ==
  /\ calls[c].pc = "init"
  /\ Step(c, IF initialized THEN AfterInit(calls[c])
              ELSE [calls[c] EXCEPT !.pc = "init_bundle"])
  /\ UNCHANGED <<initialized, db, conn, tables, workers, dead, dbFiles, dbTables, ops>>

\* init(): new Worker, this.db = new AsyncDuckDB, await this.db.instantiate
InitInstantiate(c) ==
  /\ calls[c].pc = "init_bundle"
  /\ workers' = workers + 1
  /\ db' = workers + 1
  /\ dbFiles' = Append(dbFiles, EmptyMap)
  /\ dbTables' = Append(dbTables, EmptyMap)
  /\ Step(c, [calls[c] EXCEPT !.pc = "init_instantiate"])
  /\ UNCHANGED <<initialized, conn, tables, dead, ops>>

\* init(): this.db.connect() is called, on the database this.db is now
InitConnect(c) ==
  /\ calls[c].pc = "init_instantiate"
  /\ Step(c, [calls[c] EXCEPT !.pc = "init_connect", !.connTo = db])
  /\ UNCHANGED <<initialized, db, conn, tables, workers, dead, dbFiles, dbTables, ops>>

\* init(): this.conn = (the connection); this.initialized = true
InitFinish(c) ==
  /\ calls[c].pc = "init_connect"
  /\ conn' = calls[c].connTo
  /\ initialized' = TRUE
  /\ Step(c, AfterInit(calls[c]))
  /\ UNCHANGED <<db, tables, workers, dead, dbFiles, dbTables, ops>>

\* loadFile after analyzeFile: the table name, the throw for a failed
\* analysis, the skipRows / customHeaders block
Analyzed(cl, analysis) ==
  IF ~analysis.success
    THEN [cl EXCEPT !.pc = "done",
                    !.name = IF cl.tableName # <<>> THEN cl.tableName
                             ELSE sanitizeTableName(cl.file.name),
                    !.analysis = analysis,
                    !.result = ErrorResult(AnalysisError(analysis.error))]
    ELSE [cl EXCEPT !.pc = "register", !.strategy = 1,
                    !.name = IF cl.tableName # <<>> THEN cl.tableName
                             ELSE sanitizeTableName(cl.file.name),
                    !.analysis = analysis,
                    !.delimiter = analysis.delimiter,
                    !.content = ApplyLoadOptions(analysis.content,
                                                 analysis.delimiter, cl.options)]

\* loadCSVString after preprocessCSV: the table name, detectDelimiter
Preprocessed(cl, csv) ==
  [cl EXCEPT !.pc = "register", !.strategy = 1,
             !.name = sanitizeTableName(cl.tableName),
             !.delimiter = detectDelimiter(csv).delimiter,
             !.content = csv]

\* loadFile: await analyzeFile(file) and what follows it up to the loop;
\* loadCSVString: preprocessCSV and what follows it up to the loop
Analyze(c) ==
  /\ calls[c].pc = "analyze"
  /\ IF calls[c].op = "loadFile"
       THEN Step(c, Analyzed(calls[c], analyzeFile(calls[c].file)))
       ELSE Step(c, Preprocessed(calls[c], preprocessCSV(calls[c].csvString)))
  /\ UNCHANGED <<initialized, db, conn, tables, workers, dead, dbFiles, dbTables, ops>>

\* await this.db.registerFileText(`${name}.csv`, content)
Register(c) ==
  /\ calls[c].pc = "register"
  /\ LET cl == [calls[c] EXCEPT !.attempts = Append(@, calls[c].strategy)] IN
     \E ok \in BOOLEAN :
       /\ ok \in Outcomes(Alive(db))
       /\ IF ok
            THEN /\ dbFiles' = [dbFiles EXCEPT ![db] = Put(@, cl.name, cl.content)]
                 /\ Step(c, [cl EXCEPT !.pc = "create"])
            ELSE /\ UNCHANGED dbFiles
                 /\ Step(c, CatchNext(cl))
  /\ UNCHANGED <<initialized, db, conn, tables, workers, dead, dbTables, ops>>

\* await this.conn.query(CREATE OR REPLACE TABLE name AS SELECT * FROM
\* read_csv('name.csv', strategy.options))
Create(c) ==
  /\ calls[c].pc = "create"
  /\ LET cl == calls[c] IN
     \E ok \in BOOLEAN :
       /\ ok \in Outcomes(Alive(conn) /\ cl.name \in DOMAIN dbFiles[conn])
       /\ IF ok
            THEN \E columns \in ColumnChoices :
                   /\ dbTables' = [dbTables EXCEPT ![conn] =
                        Put(@, cl.name, [text |-> dbFiles[conn][cl.name],
                                         columns |-> columns,
                                         rowCount |-> DataRows(dbFiles[conn][cl.name])])]
                   /\ Step(c, [cl EXCEPT !.pc = "describe", !.createdBy = cl.strategy,
                                 !.columns = columns])
            ELSE /\ UNCHANGED dbTables
                 /\ Step(c, CatchNext(cl))
  /\ UNCHANGED <<initialized, db, conn, tables, workers, dead, dbFiles, ops>>

\* sanitizeColumnNames: getTableSchema (DESCRIBE name) and the renames list
Describe(c) ==
  /\ calls[c].pc = "describe"
  /\ LET cl == calls[c] IN
     \E ok \in BOOLEAN :
       /\ ok \in Outcomes(Alive(conn) /\ cl.name \in DOMAIN dbTables[conn])
       /\ IF ok
            THEN LET renames == RenamesFrom(dbTables[conn][cl.name].columns, 1) IN
                 Step(c, [cl EXCEPT !.renames = renames,
                            !.pc = IF renames = <<>> THEN "count" ELSE "rename"])
            ELSE Step(c, CatchNext(cl))
  /\ UNCHANGED <<initialized, db, conn, tables, workers, dead, dbFiles, dbTables, ops>>

\* sanitizeColumnNames: one ALTER TABLE name RENAME COLUMN old TO new.  A
\* failure ends the try block like any other error of the attempt.
Rename(c) ==
  /\ calls[c].pc = "rename"
  /\ LET cl == calls[c]
         r == cl.renames[1]
     IN  \E ok \in BOOLEAN :
       /\ ok \in Outcomes(
                /\ Alive(conn) /\ cl.name \in DOMAIN dbTables[conn]
                /\ \E i \in 1..Len(dbTables[conn][cl.name].columns) :
                     dbTables[conn][cl.name].columns[i] = r.old
                /\ \A i \in 1..Len(dbTables[conn][cl.name].columns) :
                     dbTables[conn][cl.name].columns[i] # r.new)
       /\ IF ok
            THEN /\ dbTables' = [dbTables EXCEPT ![conn][cl.name].columns =
                        [i \in 1..Len(@) |-> IF @[i] = r.old THEN r.new ELSE @[i]]]
                 /\ Step(c, [cl EXCEPT !.renames = Tail(@),
                               !.pc = IF Len(cl.renames) = 1 THEN "count" ELSE "rename"])
            ELSE /\ UNCHANGED dbTables
                 /\ Step(c, [CatchNext(cl) EXCEPT !.renameFailedAt =
                               IF @ = 0 THEN cl.strategy ELSE @])
  /\ UNCHANGED <<initialized, db, conn, tables, workers, dead, dbFiles, ops>>

\* SELECT COUNT(*), this.tables.set(name, ...), return the LoadResult
CountAndReturn(c) ==
  /\ calls[c].pc = "count"
  /\ LET cl == calls[c] IN
     \E ok \in BOOLEAN :
       /\ ok \in Outcomes(Alive(conn) /\ cl.name \in DOMAIN dbTables[conn])
       /\ IF ok
            THEN LET rowCount == dbTables[conn][cl.name].rowCount IN
                 /\ tables' = Put(tables, cl.name, RegistryEntry(cl, rowCount))
                 /\ Step(c, [cl EXCEPT !.pc = "done", !.result = LoadResult(cl, rowCount)])
            ELSE /\ UNCHANGED tables
                 /\ Step(c, CatchNext(cl))
  /\ UNCHANGED <<initialized, db, conn, workers, dead, dbFiles, dbTables, ops>>

\* dropTable: await this.conn.query(DROP TABLE IF EXISTS name)
DropQuery(c) ==
  /\ calls[c].pc = "drop"
  /\ LET cl == calls[c] IN
     \E ok \in BOOLEAN :
       /\ ok \in Outcomes(Alive(conn))
       /\ IF ok
            THEN /\ dbTables' = [dbTables EXCEPT ![conn] = Del(@, cl.name)]
                 /\ Step(c, [cl EXCEPT !.pc = "drop_delete"])
            ELSE /\ UNCHANGED dbTables
                 /\ Step(c, [cl EXCEPT !.pc = "done",
                               !.result = ErrorResult(IF conn = 0 THEN NullError
                                                      ELSE EngineError(0))])
  /\ UNCHANGED <<initialized, db, conn, tables, workers, dead, dbFiles, ops>>

\* A dropTable that empties the registry.
DropClear(c) ==
  /\ calls[c].pc = "drop_delete"
  /\ tables' = EmptyMap
  /\ Step(c, [calls[c] EXCEPT !.pc = "done", !.result.status = "ok"])
  /\ UNCHANGED <<initialized, db, conn, workers, dead, dbFiles, dbTables, ops>>

\* dropTable: this.tables.delete(tableName)
DropDelete(c) ==
  /\ calls[c].pc = "drop_delete"
  /\ tables' = Del(tables, calls[c].name)
  /\ Step(c, [calls[c] EXCEPT !.pc = "done", !.result.status = "ok"])
  /\ UNCHANGED <<initialized, db, conn, workers, dead, dbFiles, dbTables, ops>>

\* close: if (this.conn) await this.conn.close()
CloseConn(c) ==
  /\ calls[c].pc = "close"
  /\ dead' = IF conn # 0 THEN dead \cup {conn} ELSE dead
  /\ Step(c, [calls[c] EXCEPT !.pc = "close_db"])
  /\ UNCHANGED <<initialized, db, conn, tables, workers, dbFiles, dbTables, ops>>

\* close: if (this.db) await this.db.terminate()
CloseTerminate(c) ==
  /\ calls[c].pc = "close_db"
  /\ dead' = IF db # 0 THEN dead \cup {db} ELSE dead
  /\ Step(c, [calls[c] EXCEPT !.pc = "close_end"])
  /\ UNCHANGED <<initialized, db, conn, tables, workers, dbFiles, dbTables, ops>>

\* close: this.initialized = false; this.tables.clear()
CloseFinish(c) ==
  /\ calls[c].pc = "close_end"
  /\ initialized' = FALSE
  /\ tables' = EmptyMap
  /\ Step(c, [calls[c] EXCEPT !.pc = "done", !.result.status = "ok"])
  /\ UNCHANGED <<db, conn, workers, dead, dbFiles, dbTables, ops>>

\* the caller has the result (or the error); the slot is free again
Return(c) ==
  /\ calls[c].pc = "done"
  /\ Step(c, Idle)
  /\ UNCHANGED <<initialized, db, conn, tables, workers, dead, dbFiles, dbTables, ops>>

\* the hook is not mounted
HookOff ==
  /\ engineRef = FALSE /\ apiKey = FALSE /\ isLoading = FALSE /\ error = <<>>
  /\ lastQuery = 0 /\ lastResults = 0 /\ hookCalls = <<>> /\ hookOps = 0

PipeOff ==
  /\ bytes = <<>> /\ enc = EncodingInfo("UTF-8", FALSE, 0) /\ text = <<>>
  /\ once = <<>> /\ stage = "off" /\ opts = DefaultOptions
  /\ arg = <<>> /\ ret = <<>>

\* the engine after construction
Init ==
  /\ PipeOff /\ HookOff
  /\ initialized = FALSE /\ db = 0 /\ conn = 0 /\ tables = EmptyMap
  /\ workers = 0 /\ dead = {} /\ dbFiles = <<>> /\ dbTables = <<>>
  /\ calls = [c \in Slots |-> Idle]
  /\ ops = 0

Next ==
  \E c \in Slots :
    \/ (StartLoadFile(c) /\ UNCHANGED <<pipeVars, hookVars>>)
    \/ (StartLoadCSVString(c) /\ UNCHANGED <<pipeVars, hookVars>>)
    \/ (StartDropTable(c) /\ UNCHANGED <<pipeVars, hookVars>>)
    \/ (StartClose(c) /\ UNCHANGED <<pipeVars, hookVars>>)
    \/ (EnsureInit(c) /\ UNCHANGED <<pipeVars, hookVars>>)
    \/ (InitInstantiate(c) /\ UNCHANGED <<pipeVars, hookVars>>)
    \/ (InitConnect(c) /\ UNCHANGED <<pipeVars, hookVars>>)
    \/ (InitFinish(c) /\ UNCHANGED <<pipeVars, hookVars>>)
    \/ (Analyze(c) /\ UNCHANGED <<pipeVars, hookVars>>)
    \/ (Register(c) /\ UNCHANGED <<pipeVars, hookVars>>)
    \/ (Create(c) /\ UNCHANGED <<pipeVars, hookVars>>)
    \/ (Describe(c) /\ UNCHANGED <<pipeVars, hookVars>>)
    \/ (Rename(c) /\ UNCHANGED <<pipeVars, hookVars>>)
    \/ (CountAndReturn(c) /\ UNCHANGED <<pipeVars, hookVars>>)
    \/ (DropQuery(c) /\ UNCHANGED <<pipeVars, hookVars>>)
    \/ (DropDelete(c) /\ UNCHANGED <<pipeVars, hookVars>>)
    \/ (CloseConn(c) /\ UNCHANGED <<pipeVars, hookVars>>)
    \/ (CloseTerminate(c) /\ UNCHANGED <<pipeVars, hookVars>>)
    \/ (CloseFinish(c) /\ UNCHANGED <<pipeVars, hookVars>>)
    \/ (Return(c) /\ UNCHANGED <<pipeVars, hookVars>>)

Spec == Init /\ [][Next]_vars

(***************************************************************************)
(* The functions of file-detection.js and the options block of loadFile,   *)
(* applied to every input of a bounded set                                 *)
(***************************************************************************)
MaxPayload == 4      \* bytes after the signature
MaxText == 7         \* characters of a text to sanitize
MaxContent == 5      \* characters of a content to apply the load options to
MaxSkip == 3         \* options.skipRows

SeqsUpTo(S, n) == UNION {[1..k -> S] : k \in 0..n}

EngineOff ==
  /\ initialized = FALSE /\ db = 0 /\ conn = 0 /\ tables = EmptyMap
  /\ workers = 0 /\ dead = {} /\ dbFiles = <<>> /\ dbTables = <<>>
  /\ calls = [c \in Slots |-> Idle]
  /\ ops = 0

\* NUL, "a", a Windows-1252 byte, the bytes of the signatures, e-acute
ByteAlphabet == {0, 97, 128, 187, 191, 233, 239, 254, 255}
Signatures == { <<255, 254, 0, 0>>, <<0, 0, 254, 255>>, <<239, 187, 191>>,
                <<255, 254>>, <<254, 255>> }
InitEncoding ==
  /\ EngineOff /\ HookOff
  /\ \E sig \in Signatures \cup {<<>>}, p \in SeqsUpTo(ByteAlphabet, MaxPayload) :
       bytes = sig \o p
  /\ enc = EncodingInfo("UTF-8", FALSE, 0) /\ text = <<>> /\ once = <<>>
  /\ stage = "input" /\ opts = DefaultOptions
  /\ arg = <<>> /\ ret = <<>>

\* analyzeFile: const encodingInfo = detectEncoding(buffer)
Detect ==
  /\ stage = "input"
  /\ enc' = detectEncoding(bytes)
  /\ stage' = "detected"
  /\ UNCHANGED <<bytes, text, once, opts, arg, ret>>

\* analyzeFile: decodeToUTF8(buffer, encodingInfo.encoding, encodingInfo.bomLength)
Decode ==
  /\ stage = "detected"
  /\ text' = decodeToUTF8(bytes, enc.encoding, enc.bomLength)
  /\ stage' = "decoded"
  /\ UNCHANGED <<bytes, enc, once, opts, arg, ret>>

NextEncoding ==
  \/ (Detect /\ UNCHANGED <<engineVars, hookVars>>)
  \/ (Decode /\ UNCHANGED <<engineVars, hookVars>>)

SpecEncoding == InitEncoding /\ [][NextEncoding]_vars

\* a quote, "1", a comma, CR, a zero-width space
TextAlphabet == {Ch.DQ, 49, Ch.COMMA, Ch.CR, Ch.ZWSP}

InitSanitize ==
  /\ EngineOff /\ HookOff
  /\ text \in SeqsUpTo(TextAlphabet, MaxText)
  /\ bytes = <<>> /\ enc = EncodingInfo("UTF-8", FALSE, 0) /\ once = <<>>
  /\ stage = "input" /\ opts = DefaultOptions
  /\ arg = <<>> /\ ret = <<>>

\* analyzeFile: content = normalizeLineEndings(content); content = cleanContent(content)
SanitizeOnce ==
  /\ stage = "input"
  /\ once' = Sanitize(text)
  /\ stage' = "once"
  /\ UNCHANGED <<bytes, enc, text, opts, arg, ret>>

\* the sanitized text sanitized again (a file saved from the cleaned content
\* and loaded again)
SanitizeAgain ==
  /\ stage = "once"
  /\ text' = Sanitize(once)
  /\ stage' = "twice"
  /\ UNCHANGED <<bytes, enc, once, opts, arg, ret>>

NextSanitize ==
  \/ (SanitizeOnce /\ UNCHANGED <<engineVars, hookVars>>)
  \/ (SanitizeAgain /\ UNCHANGED <<engineVars, hookVars>>)

SpecSanitize == InitSanitize /\ [][NextSanitize]_vars

\* "a", a comma, a semicolon, LF
ContentAlphabet == {97, Ch.COMMA, Ch.SEMI, Ch.LF}
\* customHeaders: [], ["x"], ["x", "y"]
HeaderChoices == { <<>>, << <<120>> >>, << <<120>>, <<121>> >> }
OptionChoices ==
  {[skipRows |-> k, hasCustom |-> FALSE, customHeaders |-> <<>>] : k \in 0..MaxSkip}
  \cup {[skipRows |-> k, hasCustom |-> TRUE, customHeaders |-> h] :
          k \in 0..MaxSkip, h \in HeaderChoices}

InitOptions ==
  /\ EngineOff /\ HookOff
  /\ text \in SeqsUpTo(ContentAlphabet, MaxContent)
  /\ opts \in OptionChoices
  /\ bytes = <<>> /\ enc = EncodingInfo("UTF-8", FALSE, 0) /\ once = <<>>
  /\ stage = "input"
  /\ arg = <<>> /\ ret = <<>>

\* loadFile: the skipRows / customHeaders block, with analysis.delimiter
ApplyOptions ==
  /\ stage = "input"
  /\ once' = ApplyLoadOptions(text, detectDelimiter(text).delimiter, opts)
  /\ stage' = "applied"
  /\ UNCHANGED <<bytes, enc, text, opts, arg, ret>>

NextOptions == ApplyOptions /\ UNCHANGED <<engineVars, hookVars>>

SpecOptions == InitOptions /\ [][NextOptions]_vars

(***************************************************************************)
(* The sanitizer on texts with line ends, control characters and the       *)
(* characters cleanContent names, as analyzeFile and as preprocessCSV      *)
(* apply it                                                                *)
(***************************************************************************)
MaxClean == 4        \* characters of a text to clean

\* CR, LF, NUL, U+0001, a zero-width space, U+FEFF, a single and a double
\* smart quote, a non-breaking space, "a"
CleanAlphabet == {Ch.CR, Ch.LF, Ch.NUL, 1, Ch.ZWSP, Ch.BOM, Ch.LSQ, Ch.RDQ,
                  Ch.NBSP, 97}

InitClean ==
  /\ EngineOff /\ HookOff
  /\ arg \in SeqsUpTo(CleanAlphabet, MaxClean)
  /\ ret = <<>> /\ stage = "input"
  /\ bytes = <<>> /\ enc = EncodingInfo("UTF-8", FALSE, 0) /\ text = <<>>
  /\ once = <<>> /\ opts = DefaultOptions

\* analyzeFile: content = normalizeLineEndings(content); content = cleanContent(content)
CleanForAnalysis ==
  /\ stage = "input"
  /\ ret' = Sanitize(arg)
  /\ stage' = "analysis"
  /\ UNCHANGED <<bytes, enc, text, once, opts, arg>>

\* loadCSVString: const content = this.preprocessCSV(csvString)
CleanForEngine ==
  /\ stage = "input"
  /\ ret' = preprocessCSV(arg)
  /\ stage' = "engine"
  /\ UNCHANGED <<bytes, enc, text, once, opts, arg>>

NextClean ==
  \/ (CleanForAnalysis /\ UNCHANGED <<engineVars, hookVars>>)
  \/ (CleanForEngine /\ UNCHANGED <<engineVars, hookVars>>)

SpecClean == InitClean /\ [][NextClean]_vars

(***************************************************************************)
(* parseCSVLine on every line of a bounded set                             *)
(***************************************************************************)
MaxLine == 6         \* characters of a line to parse

\* "a", a comma, a pipe, a double and a single quote
LineAlphabet == {97, Ch.COMMA, Ch.PIPE, Ch.DQ, Ch.SQ}
LineDelimiters == {Ch.COMMA, Ch.PIPE}

InitParse ==
  /\ EngineOff /\ HookOff
  /\ \E line \in SeqsUpTo(LineAlphabet, MaxLine), delimiter \in LineDelimiters :
       arg = [line |-> line, delimiter |-> delimiter]
  /\ ret = <<>> /\ stage = "input"
  /\ bytes = <<>> /\ enc = EncodingInfo("UTF-8", FALSE, 0) /\ text = <<>>
  /\ once = <<>> /\ opts = DefaultOptions

\* detectHeader: lines.slice(0, 10).map(line => parseCSVLine(line, delimiter))
ParseLine ==
  /\ stage = "input"
  /\ ret' = parseCSVLine(arg.line, arg.delimiter)
  /\ stage' = "parsed"
  /\ UNCHANGED <<bytes, enc, text, once, opts, arg>>

NextParse == ParseLine /\ UNCHANGED <<engineVars, hookVars>>

SpecParse == InitParse /\ [][NextParse]_vars

(***************************************************************************)
(* detectDelimiter on every content of a bounded set, and on contents of   *)
(* more lines than it samples                                              *)
(***************************************************************************)
MaxDelimited == 5    \* characters of a content whose delimiter is inferred
MaxRun == 12         \* delimiters in a row, in the last line of a long content

\* "a", the four candidates, a double quote, LF
DelimitedAlphabet == {97, Ch.COMMA, Ch.TAB, Ch.SEMI, Ch.PIPE, Ch.DQ, Ch.LF}

\* n lines equal to head, then the line last
LongContent(head, n, last) ==
  Join([k \in 1..(n + 1) |-> IF k <= n THEN head ELSE last], <<Ch.LF>>)

InitDelimiter ==
  /\ EngineOff /\ HookOff
  /\ \/ arg \in SeqsUpTo(DelimitedAlphabet, MaxDelimited)
     \/ \E head \in { <<97>>, <<Ch.COMMA>>, <<>> },
           n \in {0, DelimiterSampleLines - 1, DelimiterSampleLines},
           last \in { <<Ch.SEMI>>, <<Ch.COMMA, Ch.SEMI>>,
                      [k \in 1..MaxRun |-> Ch.SEMI] } :
          arg = LongContent(head, n, last)
  /\ ret = <<>> /\ stage = "input"
  /\ bytes = <<>> /\ enc = EncodingInfo("UTF-8", FALSE, 0) /\ text = <<>>
  /\ once = <<>> /\ opts = DefaultOptions

\* analyzeFile: const delimiterInfo = detectDelimiter(content)
InferDelimiter ==
  /\ stage = "input"
  /\ ret' = detectDelimiter(arg)
  /\ stage' = "inferred"
  /\ UNCHANGED <<bytes, enc, text, once, opts, arg>>

NextDelimiter == InferDelimiter /\ UNCHANGED <<engineVars, hookVars>>

SpecDelimiter == InitDelimiter /\ [][NextDelimiter]_vars

(***************************************************************************)
(* sanitizeColumnName on every name of a bounded set, on names around the  *)
(* length limit, and on what is not a string                               *)
(***************************************************************************)
MaxName == 4         \* characters of a column name to sanitize
MaxOver == 2         \* characters a long name has beyond the length limit

\* "a", "1", a space, an underscore, a hyphen, a single quote, "!", LF,
\* e-acute
NameAlphabet == {97, 49, Ch.SP, Ch.USCORE, Ch.MINUS, Ch.SQ, 33, Ch.LF, 233}

InitName ==
  /\ EngineOff /\ HookOff
  /\ \/ arg \in SeqsUpTo(NameAlphabet, MaxName)
     \/ arg = NotAString
     \/ \E head \in SeqsUpTo({49, Ch.USCORE, 33}, 2),
           n \in (ColumnNameLimit - 2)..(ColumnNameLimit + MaxOver),
           fill \in {97, 49, 33} :
          arg = head \o [k \in 1..n |-> fill]
  /\ ret = <<>> /\ stage = "input"
  /\ bytes = <<>> /\ enc = EncodingInfo("UTF-8", FALSE, 0) /\ text = <<>>
  /\ once = <<>> /\ opts = DefaultOptions

\* sanitizeColumnName(name), called on a header
SanitizeName ==
  /\ stage = "input"
  /\ ret' = sanitizeColumnName(arg)
  /\ stage' = "sanitized"
  /\ UNCHANGED <<bytes, enc, text, once, opts, arg>>

NextName == SanitizeName /\ UNCHANGED <<engineVars, hookVars>>

SpecName == InitName /\ [][NextName]_vars

(***************************************************************************)
(* makeUniqueColumnNames on every list of a bounded set of names, and on   *)
(* lists of one name many times                                            *)
(***************************************************************************)
MaxNames == 4        \* names in a list to make unique
MaxSame == 11        \* times the same name stands in a long list

\* a, A, a_1, A_1, a_1_1, b, column, the empty name, a space, null
NameChoices == { <<97>>, <<65>>, <<97, 95, 49>>, <<65, 95, 49>>,
                 <<97, 95, 49, 95, 49>>, <<98>>, ColumnLiteral, <<>>, <<Ch.SP>>,
                 NotAString }

InitUnique ==
  /\ EngineOff /\ HookOff
  /\ \/ arg \in SeqsUpTo(NameChoices, MaxNames)
     \/ \E n \in (MaxNames + 1)..MaxSame, name \in { <<97>>, <<>> } :
          arg = [k \in 1..n |-> name]
  /\ ret = <<>> /\ stage = "input"
  /\ bytes = <<>> /\ enc = EncodingInfo("UTF-8", FALSE, 0) /\ text = <<>>
  /\ once = <<>> /\ opts = DefaultOptions

\* makeUniqueColumnNames(names), called on the sanitized headers
MakeUnique ==
  /\ stage = "input"
  /\ ret' = makeUniqueColumnNames(arg)
  /\ stage' = "unique"
  /\ UNCHANGED <<bytes, enc, text, once, opts, arg>>

NextUnique == MakeUnique /\ UNCHANGED <<engineVars, hookVars>>

SpecUnique == InitUnique /\ [][NextUnique]_vars

(***************************************************************************)
(* detectHeader on every content of a bounded set                          *)
(***************************************************************************)
MaxHeader == 6       \* characters of a content whose header is detected

\* "e", "E", "1", a comma, a space, LF
HeaderAlphabet == {101, 69, 49, Ch.COMMA, Ch.SP, Ch.LF}
HeaderDelimiters == {Ch.COMMA, Ch.SEMI}

InitHeader ==
  /\ EngineOff /\ HookOff
  /\ \E content \in SeqsUpTo(HeaderAlphabet, MaxHeader),
        delimiter \in HeaderDelimiters :
       arg = [content |-> content, delimiter |-> delimiter]
  /\ ret = <<>> /\ stage = "input"
  /\ bytes = <<>> /\ enc = EncodingInfo("UTF-8", FALSE, 0) /\ text = <<>>
  /\ once = <<>> /\ opts = DefaultOptions

\* analyzeFile: const headerInfo = detectHeader(content, delimiterInfo.delimiter)
DetectHeader ==
  /\ stage = "input"
  /\ ret' = detectHeader(arg.content, arg.delimiter)
  /\ stage' = "header"
  /\ UNCHANGED <<bytes, enc, text, once, opts, arg>>

NextHeader == DetectHeader /\ UNCHANGED <<engineVars, hookVars>>

SpecHeader == InitHeader /\ [][NextHeader]_vars

(***************************************************************************)
(* detectEncoding on inputs longer than the stretch it counts NULs in:     *)
(* letters, then letters and NULs in turn                                  *)
(***************************************************************************)
MaxLong == 4002      \* bytes of the stretch of letters and NULs in turn

\* head bytes "a", then tail bytes, "a" and NUL in turn, the NULs at the
\* offsets of the given parity (0: even, 1: odd)
LongBytes(head, tail, parity) ==
  [i \in 1..(head + tail) |->
     IF i > head /\ (i - 1) % 2 = parity THEN 0 ELSE 97]

InitLong ==
  /\ EngineOff /\ HookOff
  /\ \E h \in 0..5, t \in 0..((MaxLong - 2) \div 500), parity \in {0, 1} :
       bytes = LongBytes(100 * h, 500 * t + 2, parity)
  /\ enc = EncodingInfo("UTF-8", FALSE, 0) /\ text = <<>> /\ once = <<>>
  /\ stage = "input" /\ opts = DefaultOptions
  /\ arg = <<>> /\ ret = <<>>

NextLong == Detect /\ UNCHANGED <<engineVars, hookVars>>

SpecLong == InitLong /\ [][NextLong]_vars

(***************************************************************************)
(* useZiipEngine (src/unnamed/part_004): the mount effect, ask,            *)
(* loadFileSmart, loadFile and executeSQL, one action for each stretch of  *)
(* code between two awaits.  The engine and the SQL generator are what     *)
(* the hook awaits: each await resolves or rejects.  The states tables,    *)
(* loadingStatus and lastStructure are left out; isInitialized is the      *)
(* mount effect having returned.                                           *)
(***************************************************************************)
MaxHookOps == 2      \* hook functions called in one run
MaxRetries == 2      \* the maxRetries ask is called with (2 is its default)

\* slot 0 is the mount effect, the others are the calls of the component
MountSlot == 0
\* the SQL texts generateSQL returns, the results execute returns, the
\* messages of the errors the awaited calls reject with
SqlChoices == {1, 2}
ResultChoices == {1}
Messages == {"m1", "m2"}

\* let lastError = null
NoPrevious == [message |-> "", sql |-> 0]

\* The record of a call of a hook function: its arguments, where it stands
\* (pc), the locals of ask, and what it has done so far: the previousError
\* argument of each generateSQL call (generated), the SQL and the error of
\* each attempt (tried; sql 0: none was generated, message "": no error),
\* how it ended (outcome) and the message of the error it threw.
HookIdle == [op |-> "idle", pc |-> "idle", maxRetries |-> 0, attempt |-> 0,
             sql |-> 0, lastError |-> NoPrevious, multiRow |-> FALSE,
             generated |-> <<>>, tried |-> <<>>,
             outcome |-> "none", thrown |-> ""]

UserSlots == (DOMAIN hookCalls) \ {MountSlot}

HookStep(c, cl) == hookCalls' = [hookCalls EXCEPT ![c] = cl]

\* A new call takes the lowest free slot.
CanCall(c) ==
  /\ hookOps < MaxHookOps
  /\ hookCalls[c].op = "idle"
  /\ \A d \in UserSlots : d < c => hookCalls[d].op # "idle"

Thrown(cl, m) == [cl EXCEPT !.pc = "done", !.outcome = "thrown", !.thrown = m]
Returned(cl) == [cl EXCEPT !.pc = "done", !.outcome = "returned"]

\* useEffect: engineRef.current = getEngine(), up to await init()
MountEffect ==
  /\ hookCalls[MountSlot].op = "idle"
  /\ engineRef' = TRUE
  /\ HookStep(MountSlot, [HookIdle EXCEPT !.op = "mount", !.pc = "init"])
  /\ UNCHANGED <<apiKey, isLoading, error, lastQuery, lastResults, hookOps>>

\* useEffect: init() resolves (setIsInitialized(true)) or rejects (setError)
MountInit ==
  /\ hookCalls[MountSlot].pc = "init"
  /\ \/ /\ HookStep(MountSlot, Returned(hookCalls[MountSlot]))
        /\ UNCHANGED error
     \/ \E m \in Messages :
          /\ HookStep(MountSlot, Returned(hookCalls[MountSlot]))
          /\ error' = <<"Failed to initialize DuckDB", m>>
  /\ UNCHANGED <<engineRef, apiKey, isLoading, lastQuery, lastResults, hookOps>>

\* ask(question, maxRetries), up to await formatContextForPrompt()
StartAsk(c) ==
  /\ CanCall(c)
  /\ hookOps' = hookOps + 1
  /\ \E r \in 0..MaxRetries :
       LET cl == [HookIdle EXCEPT !.op = "ask", !.maxRetries = r] IN
       IF ~engineRef \/ ~apiKey
         THEN /\ HookStep(c, Thrown(cl, "Engine not ready or API key missing"))
              /\ UNCHANGED <<isLoading, error>>
         ELSE /\ HookStep(c, [cl EXCEPT !.pc = "context"])
              /\ isLoading' = TRUE
              /\ error' = <<>>
  /\ UNCHANGED <<engineRef, apiKey, lastQuery, lastResults>>

\* for (...; attempt <= maxRetries; ...): the loop's test and, when it
\* holds, the call of generateSQL(question, context, apiKey, lastError) up
\* to its await; when it does not, ask returns nothing.
LoopTest(cl) ==
  IF cl.attempt <= cl.maxRetries
    THEN [cl EXCEPT !.pc = "generate", !.generated = Append(@, cl.lastError)]
    ELSE Returned(cl)

\* ask: formatContextForPrompt() resolves, or rejects: the outer catch
\* rethrows, finally sets isLoading to false
AskContext(c) ==
  /\ hookCalls[c].pc = "context"
  /\ \/ /\ HookStep(c, LoopTest(hookCalls[c]))
        /\ UNCHANGED isLoading
     \/ \E m \in Messages :
          /\ HookStep(c, Thrown(hookCalls[c], m))
          /\ isLoading' = FALSE
  /\ UNCHANGED <<engineRef, apiKey, error, lastQuery, lastResults, hookOps>>

\* The catch block of the retry loop, the error having the message m and
\* the attempt having generated the SQL text made (0: none): lastError =
\* {message, sql}; after the last attempt setError and throw (finally:
\* setIsLoading(false)), otherwise the next turn of the loop.
AskCatch(c, m, made) ==
  LET cl == [hookCalls[c] EXCEPT
               !.lastError = [message |-> m, sql |-> hookCalls[c].sql],
               !.tried = Append(@, [sql |-> made, message |-> m])]
  IN  IF cl.attempt = cl.maxRetries
        THEN /\ HookStep(c, Thrown(cl, m))
             /\ error' = <<"Query failed", m>>
             /\ isLoading' = FALSE
        ELSE /\ HookStep(c, LoopTest([cl EXCEPT !.attempt = @ + 1]))
             /\ UNCHANGED <<error, isLoading>>

\* ask: generateSQL resolves (sql = ..., setLastQuery(sql), execute(sql) is
\* called) or rejects
AskGenerate(c) ==
  /\ hookCalls[c].pc = "generate"
  /\ \/ \E q \in SqlChoices :
          /\ HookStep(c, [hookCalls[c] EXCEPT !.sql = q, !.pc = "execute"])
          /\ lastQuery' = q
          /\ UNCHANGED <<error, isLoading>>
     \/ \E m \in Messages :
          /\ AskCatch(c, m, 0)
          /\ UNCHANGED lastQuery
  /\ UNCHANGED <<engineRef, apiKey, lastResults, hookOps>>

\* ask: execute(sql) resolves (setLastResults, return; finally
\* setIsLoading(false)) or rejects
AskExecute(c) ==
  /\ hookCalls[c].op = "ask" /\ hookCalls[c].pc = "execute"
  /\ \/ \E r \in ResultChoices :
          /\ HookStep(c, Returned([hookCalls[c] EXCEPT
                           !.tried = Append(@, [sql |-> hookCalls[c].sql,
                                                message |-> ""])]))
          /\ lastResults' = r
          /\ isLoading' = FALSE
          /\ UNCHANGED error
     \/ \E m \in Messages :
          /\ AskCatch(c, m, hookCalls[c].sql)
          /\ UNCHANGED lastResults
  /\ UNCHANGED <<engineRef, apiKey, lastQuery, hookOps>>

\* loadFileSmart(file), up to await getRawLines(file, 30)
StartLoadFileSmart(c) ==
  /\ CanCall(c)
  /\ hookOps' = hookOps + 1
  /\ LET cl == [HookIdle EXCEPT !.op = "loadFileSmart"] IN
     IF ~engineRef \/ ~apiKey
       THEN /\ HookStep(c, Thrown(cl, "Engine not ready or API key missing"))
            /\ UNCHANGED <<isLoading, error>>
       ELSE /\ HookStep(c, [cl EXCEPT !.pc = "rawLines"])
            /\ isLoading' = TRUE
            /\ error' = <<>>
  /\ UNCHANGED <<engineRef, apiKey, lastQuery, lastResults>>

\* The catch and finally blocks of loadFileSmart, loadFile and executeSQL:
\* setError, throw, setIsLoading(false)
HookCatch(c, prefix, m) ==
  /\ HookStep(c, Thrown(hookCalls[c], m))
  /\ error' = <<prefix, m>>
  /\ isLoading' = FALSE

\* loadFileSmart: getRawLines resolves (detectCSVStructure is called) or
\* rejects
SmartRawLines(c) ==
  /\ hookCalls[c].pc = "rawLines"
  /\ \/ /\ HookStep(c, [hookCalls[c] EXCEPT !.pc = "structure"])
        /\ UNCHANGED <<error, isLoading>>
     \/ \E m \in Messages : HookCatch(c, "Failed to load file", m)
  /\ UNCHANGED <<engineRef, apiKey, lastQuery, lastResults, hookOps>>

\* loadFileSmart: detectCSVStructure resolves, with a multi-row header
\* (mergeMultiRowHeaders is called) or without (engine.loadFile is called),
\* or rejects
SmartStructure(c) ==
  /\ hookCalls[c].pc = "structure"
  /\ \/ \E multi \in BOOLEAN :
          /\ HookStep(c, [hookCalls[c] EXCEPT !.multiRow = multi,
                            !.pc = IF multi THEN "merge" ELSE "load"])
          /\ UNCHANGED <<error, isLoading>>
     \/ \E m \in Messages : HookCatch(c, "Failed to load file", m)
  /\ UNCHANGED <<engineRef, apiKey, lastQuery, lastResults, hookOps>>

\* loadFileSmart: mergeMultiRowHeaders resolves (engine.loadFile is called)
\* or rejects
SmartMerge(c) ==
  /\ hookCalls[c].pc = "merge"
  /\ \/ /\ HookStep(c, [hookCalls[c] EXCEPT !.pc = "load"])
        /\ UNCHANGED <<error, isLoading>>
     \/ \E m \in Messages : HookCatch(c, "Failed to load file", m)
  /\ UNCHANGED <<engineRef, apiKey, lastQuery, lastResults, hookOps>>

\* loadFile(file), up to await engine.loadFile(file)
StartHookLoadFile(c) ==
  /\ CanCall(c)
  /\ hookOps' = hookOps + 1
  /\ LET cl == [HookIdle EXCEPT !.op = "loadFile"] IN
     IF ~engineRef
       THEN /\ HookStep(c, Returned(cl))
            /\ UNCHANGED <<isLoading, error>>
       ELSE /\ HookStep(c, [cl EXCEPT !.pc = "load"])
            /\ isLoading' = TRUE
            /\ error' = <<>>
  /\ UNCHANGED <<engineRef, apiKey, lastQuery, lastResults>>

\* loadFileSmart and loadFile: engine.loadFile resolves (setTables, return;
\* finally setIsLoading(false)) or rejects
HookLoad(c) ==
  /\ hookCalls[c].pc = "load"
  /\ \/ /\ HookStep(c, Returned(hookCalls[c]))
        /\ isLoading' = FALSE
        /\ UNCHANGED error
     \/ \E m \in Messages : HookCatch(c, "Failed to load file", m)
  /\ UNCHANGED <<engineRef, apiKey, lastQuery, lastResults, hookOps>>

\* executeSQL(sql), up to await engine.execute(sql)
StartExecuteSQL(c) ==
  /\ CanCall(c)
  /\ hookOps' = hookOps + 1
  /\ \E q \in SqlChoices :
       LET cl == [HookIdle EXCEPT !.op = "executeSQL", !.sql = q] IN
       IF ~engineRef
         THEN /\ HookStep(c, Returned(cl))
              /\ UNCHANGED <<isLoading, error>>
         ELSE /\ HookStep(c, [cl EXCEPT !.pc = "execute"])
              /\ isLoading' = TRUE
              /\ error' = <<>>
  /\ UNCHANGED <<engineRef, apiKey, lastQuery, lastResults>>

\* executeSQL: execute resolves (setLastQuery, setLastResults, return;
\* finally setIsLoading(false)) or rejects
HookExecute(c) ==
  /\ hookCalls[c].op = "executeSQL" /\ hookCalls[c].pc = "execute"
  /\ \/ \E r \in ResultChoices :
          /\ HookStep(c, Returned(hookCalls[c]))
          /\ lastQuery' = hookCalls[c].sql
          /\ lastResults' = r
          /\ isLoading' = FALSE
          /\ UNCHANGED error
     \/ \E m \in Messages :
          /\ HookCatch(c, "SQL error", m)
          /\ UNCHANGED <<lastQuery, lastResults>>
  /\ UNCHANGED <<engineRef, apiKey, hookOps>>

\* the caller has the result (or the error); the slot is free again
HookReturn(c) ==
  /\ hookCalls[c].pc = "done"
  /\ HookStep(c, HookIdle)
  /\ UNCHANGED <<engineRef, apiKey, isLoading, error, lastQuery, lastResults, hookOps>>

\* the hook after its first render, with or without an API key, its calls
\* made in the slots given
HookMounted(slots) ==
  /\ PipeOff /\ EngineOff
  /\ engineRef = FALSE /\ apiKey \in BOOLEAN /\ isLoading = FALSE /\ error = <<>>
  /\ lastQuery = 0 /\ lastResults = 0 /\ hookOps = 0
  /\ hookCalls = [c \in slots \cup {MountSlot} |-> HookIdle]

NextHook ==
  \/ (MountEffect /\ UNCHANGED <<pipeVars, engineVars>>)
  \/ (MountInit /\ UNCHANGED <<pipeVars, engineVars>>)
  \/ \E c \in UserSlots :
       \/ (StartAsk(c) /\ UNCHANGED <<pipeVars, engineVars>>)
       \/ (AskContext(c) /\ UNCHANGED <<pipeVars, engineVars>>)
       \/ (AskGenerate(c) /\ UNCHANGED <<pipeVars, engineVars>>)
       \/ (AskExecute(c) /\ UNCHANGED <<pipeVars, engineVars>>)
       \/ (StartLoadFileSmart(c) /\ UNCHANGED <<pipeVars, engineVars>>)
       \/ (SmartRawLines(c) /\ UNCHANGED <<pipeVars, engineVars>>)
       \/ (SmartStructure(c) /\ UNCHANGED <<pipeVars, engineVars>>)
       \/ (SmartMerge(c) /\ UNCHANGED <<pipeVars, engineVars>>)
       \/ (StartHookLoadFile(c) /\ UNCHANGED <<pipeVars, engineVars>>)
       \/ (HookLoad(c) /\ UNCHANGED <<pipeVars, engineVars>>)
       \/ (StartExecuteSQL(c) /\ UNCHANGED <<pipeVars, engineVars>>)
       \/ (HookExecute(c) /\ UNCHANGED <<pipeVars, engineVars>>)
       \/ (HookReturn(c) /\ UNCHANGED <<pipeVars, engineVars>>)

\* the calls of the component made one after the other, each awaited
\* before the next
InitAsk == HookMounted({1})

SpecAsk == InitAsk /\ [][NextHook]_vars

\* two calls of the component may be in flight at once
InitHook == HookMounted({1, 2})

SpecHook == InitHook /\ [][NextHook]_vars

(***************************************************************************)
(* DuckDBEngine with calls that overlap: the init() of the hook's mount    *)
(* effect and loadFile calls of files that share a table name, two calls   *)
(* in flight at once                                                       *)
(***************************************************************************)
MaxOverlap == 2      \* operations called in one run of overlapping calls

OverlapSlots == {1, 2}

\* a.csv: "a,b" / "1,2" / "3,4"
FileTall == [name |-> <<97, 46, 99, 115, 118>>,
             bytes |-> <<97, 44, 98, 10, 49, 44, 50, 10, 51, 44, 52>>,
             workbook |-> NoWorkbook]
\* a.txt and a.csv both give the table name a
SharedFiles == {FileSemi, FileTall}

CanOverlap(c) ==
  /\ ops < MaxOverlap
  /\ calls[c].op = "idle"
  /\ \A d \in OverlapSlots : d < c => calls[d].op # "idle"

\* the mount effect of useZiipEngine: getEngine().init()
StartInit(c) ==
  /\ CanOverlap(c)
  /\ Step(c, [Idle EXCEPT !.op = "init", !.pc = "init", !.registryAtStart = tables])
  /\ ops' = ops + 1
  /\ UNCHANGED <<initialized, db, conn, tables, workers, dead, dbFiles, dbTables>>

\* loadFile(file) as the hook calls it
StartSharedLoad(c) ==
  /\ CanOverlap(c)
  /\ \E f \in SharedFiles :
       Step(c, [Idle EXCEPT !.op = "loadFile", !.pc = "init", !.file = f,
                            !.registryAtStart = tables])
  /\ ops' = ops + 1
  /\ UNCHANGED <<initialized, db, conn, tables, workers, dead, dbFiles, dbTables>>

InitOverlap ==
  /\ PipeOff /\ HookOff
  /\ initialized = FALSE /\ db = 0 /\ conn = 0 /\ tables = EmptyMap
  /\ workers = 0 /\ dead = {} /\ dbFiles = <<>> /\ dbTables = <<>>
  /\ calls = [c \in OverlapSlots |-> Idle]
  /\ ops = 0

NextOverlap ==
  \E c \in OverlapSlots :
    \/ (StartInit(c) /\ UNCHANGED <<pipeVars, hookVars>>)
    \/ (StartSharedLoad(c) /\ UNCHANGED <<pipeVars, hookVars>>)
    \/ (EnsureInit(c) /\ UNCHANGED <<pipeVars, hookVars>>)
    \/ (InitInstantiate(c) /\ UNCHANGED <<pipeVars, hookVars>>)
    \/ (InitConnect(c) /\ UNCHANGED <<pipeVars, hookVars>>)
    \/ (InitFinish(c) /\ UNCHANGED <<pipeVars, hookVars>>)
    \/ (Analyze(c) /\ UNCHANGED <<pipeVars, hookVars>>)
    \/ (Register(c) /\ UNCHANGED <<pipeVars, hookVars>>)
    \/ (Create(c) /\ UNCHANGED <<pipeVars, hookVars>>)
    \/ (Describe(c) /\ UNCHANGED <<pipeVars, hookVars>>)
    \/ (Rename(c) /\ UNCHANGED <<pipeVars, hookVars>>)
    \/ (CountAndReturn(c) /\ UNCHANGED <<pipeVars, hookVars>>)
    \/ (Return(c) /\ UNCHANGED <<pipeVars, hookVars>>)

SpecOverlap == InitOverlap /\ [][NextOverlap]_vars

(***************************************************************************)
(* The header line loadFile makes of customHeaders, read back by           *)
(* parseCSVLine, for every list of a bounded set of headers                *)
(***************************************************************************)
MaxCustom == 2       \* headers in a customHeaders list
MaxCustomLen == 2    \* characters of a custom header

\* "a", the delimiters, the double quote
CustomAlphabet == {97, Ch.COMMA, Ch.SEMI, Ch.DQ}
CustomDelimiters == {Ch.COMMA, Ch.SEMI}

InitCustom ==
  /\ EngineOff /\ HookOff
  /\ bytes = <<>> /\ enc = EncodingInfo("UTF-8", FALSE, 0) /\ text = <<>>
  /\ once = <<>> /\ stage = "input" /\ opts = DefaultOptions
  /\ \E h \in SeqsUpTo(SeqsUpTo(CustomAlphabet, MaxCustomLen), MaxCustom),
        d \in CustomDelimiters :
       arg = [customHeaders |-> h, delimiter |-> d]
  /\ ret = <<>>

\* loadFile: customHeaders.join(analysis.delimiter), the header line of the
\* content, then read as a line of the file: parseCSVLine(line, delimiter)
ReadHeaderLine ==
  /\ stage = "input"
  /\ ret' = parseCSVLine(Join(arg.customHeaders, <<arg.delimiter>>), arg.delimiter)
  /\ stage' = "header line"
  /\ UNCHANGED <<bytes, enc, text, once, opts, arg>>

NextCustom == ReadHeaderLine /\ UNCHANGED <<engineVars, hookVars>>

SpecCustom == InitCustom /\ [][NextCustom]_vars

(***************************************************************************)
(* The lines loadFileSmart looks at and the lines loadFile drops, for      *)
(* every text of a bounded set of texts with CR, LF and CRLF line ends     *)
(***************************************************************************)
MaxRaw == 5          \* characters of a file text
MaxRawSkip == 2      \* the skipRows loadFileSmart passes on

RawLineCount == 30   \* getRawLines(file, 30)

\* getRawLines(file, numLines), content being the text of the file
getRawLines(content, numLines) == Take(SplitLines(content), numLines)

RawAlphabet == {97, 98, Ch.CR, Ch.LF}

InitRaw ==
  /\ EngineOff /\ HookOff
  /\ bytes = <<>> /\ enc = EncodingInfo("UTF-8", FALSE, 0) /\ text = <<>>
  /\ once = <<>> /\ stage = "input" /\ opts = DefaultOptions
  /\ \E t \in SeqsUpTo(RawAlphabet, MaxRaw), k \in 0..MaxRawSkip :
       arg = [content |-> t, skipRows |-> k]
  /\ ret = <<>>

\* loadFileSmart: const rawLines = await getRawLines(file, 30)
GetRawLines ==
  /\ stage = "input"
  /\ ret' = getRawLines(arg.content, RawLineCount)
  /\ stage' = "raw lines"
  /\ UNCHANGED <<bytes, enc, text, once, opts, arg>>

\* loadFileSmart: engine.loadFile(file, null, {skipRows, customHeaders:
\* null}); loadFile: the content of the analysis, skipRows lines dropped
LoadWithoutRows ==
  /\ stage = "raw lines"
  /\ text' = ApplyLoadOptions(Sanitize(arg.content), Ch.COMMA,
                              [DefaultOptions EXCEPT !.skipRows = arg.skipRows])
  /\ stage' = "rows dropped"
  /\ UNCHANGED <<bytes, enc, once, opts, arg, ret>>

NextRaw ==
  \/ (GetRawLines /\ UNCHANGED <<engineVars, hookVars>>)
  \/ (LoadWithoutRows /\ UNCHANGED <<engineVars, hookVars>>)

SpecRaw == InitRaw /\ [][NextRaw]_vars

(***************************************************************************)
(* sanitizeColumnName on its own result, for short names and for names     *)
(* with a special character around the length limit                        *)
(***************************************************************************)
MaxAgain == 3        \* characters of a short name to sanitize twice
MaxAgainTail == 3    \* characters after the fill of a long name

InitAgain ==
  /\ EngineOff /\ HookOff
  /\ \/ arg \in SeqsUpTo(NameAlphabet, MaxAgain)
     \/ arg = NotAString
     \/ \E head \in SeqsUpTo({49, Ch.USCORE}, 1),
           n \in (ColumnNameLimit - 3)..ColumnNameLimit,
           rest \in SeqsUpTo({97, 49, Ch.SP, 33}, MaxAgainTail) :
          arg = head \o [k \in 1..n |-> 97] \o rest
  /\ ret = <<>> /\ stage = "input"
  /\ bytes = <<>> /\ enc = EncodingInfo("UTF-8", FALSE, 0) /\ text = <<>>
  /\ once = <<>> /\ opts = DefaultOptions

\* sanitizeColumnName(sanitizeColumnName(name)): the second call
SanitizeNameAgain ==
  /\ stage = "sanitized"
  /\ text' = sanitizeColumnName(ret)
  /\ stage' = "sanitized again"
  /\ UNCHANGED <<bytes, enc, once, opts, arg, ret>>

NextAgain ==
  \/ (SanitizeName /\ UNCHANGED <<engineVars, hookVars>>)
  \/ (SanitizeNameAgain /\ UNCHANGED <<engineVars, hookVars>>)

SpecAgain == InitAgain /\ [][NextAgain]_vars

(***************************************************************************)
(* The load orchestration: properties of Spec                              *)
(***************************************************************************)
IsLoad(cl) == cl.op \in {"loadFile", "loadCSVString"}
Failed(cl) == cl.pc = "done" /\ cl.result.status = "error"
Succeeded(cl) == cl.pc = "done" /\ cl.result.status = "ok"
Range(q) == {q[i] : i \in 1..Len(q)}

\* C1: loadFile and loadCSVString attempt the four strategies in the order
\* detected, all_varchar, minimal, auto: an attempt starts only when the one
\* before it has failed (the first when none has), at most four attempts are
\* made, none after a success, and the strategy named in the LoadResult is
\* that of the first attempt that succeeded, every earlier one having failed.
C1_StrategiesInOrder ==
  /\ [](\A c \in Slots :
          LET cl == calls[c] IN
          /\ Len(cl.attempts) <= 4
          /\ \A i \in 1..Len(cl.attempts) : cl.attempts[i] = i
          /\ (IsLoad(cl) /\ Succeeded(cl)) =>
               /\ cl.attempts # <<>>
               /\ cl.result.strategy =
                    <<"detected", "all_varchar", "minimal", "auto">>[Len(cl.attempts)]
               /\ cl.lastError.strategy = Len(cl.attempts) - 1)
  /\ [][\A c \in Slots :
          (calls'[c].op # "idle" /\ calls'[c].attempts # calls[c].attempts) =>
             /\ calls[c].result.status # "ok"
             /\ calls'[c].attempts = Append(calls[c].attempts, Len(calls[c].attempts) + 1)
             /\ calls[c].lastError.strategy = Len(calls[c].attempts)]_vars

\* a loadFile has returned the strategy minimal after three attempts
C1_Witness ==
  \E c \in Slots :
    /\ calls[c].op = "loadFile" /\ Succeeded(calls[c])
    /\ calls[c].result.strategy = "minimal" /\ Len(calls[c].attempts) = 3

\* C2: when renaming a column fails after a strategy has created the table,
\* no further strategy is attempted and the load returns a LoadResult with
\* that same strategy, the failure among its warnings, the table kept.
C2_RenameFailureNotFatal ==
  \A c \in Slots :
    LET cl == calls[c] IN
    cl.renameFailedAt # 0 =>
      /\ Len(cl.attempts) = cl.renameFailedAt
      /\ cl.pc = "done" =>
           /\ cl.result.status = "ok"
           /\ cl.result.strategy = Strategies[cl.renameFailedAt]
           /\ cl.result.warnings # cl.analysis.warnings
           /\ Alive(conn) /\ cl.name \in DOMAIN dbTables[conn]

Remediation ==
  [f \in {FileXlsb, FileJson, FileParquet} |->
     CASE f = FileXlsb -> "Excel binary files (.xlsb) are not supported. Please save as .xlsx or CSV in Excel."
       [] f = FileJson -> "JSON files are not yet supported. Please convert to CSV format."
       [] OTHER        -> "Parquet files are not yet supported in the browser version."]

C5_EveryDegradedDecisionWarned ==
  \A c \in Slots :
    LET cl == calls[c]
        a == cl.analysis
        w == Range(cl.result.warnings)
    IN  (cl.op = "loadFile" /\ Succeeded(cl)) =>
          /\ a.delimiterConfidence.num * 2 < a.delimiterConfidence.den =>
               "Low confidence in delimiter detection. Data may not parse correctly." \in w
          /\ (~a.hasHeader \/ a.headerConfidence.num * 2 < a.headerConfidence.den) =>
               "Header row detection uncertain. First row may be treated as data." \in w
          /\ a.encoding = "Windows-1252" =>
               "File appears to use Windows-1252 encoding. Some characters may have been converted." \in w
          /\ a.delimiter = Ch.SEMI =>
               "Detected semicolon delimiter (European CSV format)." \in w
          /\ a.sheetCount > 1 => WarnSheets \in w

\* the steps that change the registry
RegistryLoadStep(c) ==
  /\ IsLoad(calls[c]) /\ calls[c].pc # "done" /\ Succeeded(calls'[c])
  /\ DOMAIN tables' = (DOMAIN tables) \cup {calls[c].name}
  /\ \A k \in (DOMAIN tables) \ {calls[c].name} : tables'[k] = tables[k]
RegistryDropStep(c) ==
  /\ calls[c].op = "dropTable"
  /\ DOMAIN tables' = (DOMAIN tables) \ {calls[c].name}
  /\ \A k \in DOMAIN tables' : tables'[k] = tables[k]
RegistryCloseStep(c) ==
  /\ calls[c].op = "close"
  /\ tables' = EmptyMap

\* C6 as stated: the registry changes only in the step that ends a
\* successful load, which sets the entry of its own table name and no other,
\* and in a step of dropTable, which removes the entry of the named table
\* and no other; a loadFile that fails leaves the registry as it found it.
C6_OnlyLoadAndDrop ==
  /\ [][tables' # tables =>
          \E c \in Slots : RegistryLoadStep(c) \/ RegistryDropStep(c)]_vars
  /\ [](\A c \in Slots :
          (calls[c].op = "loadFile" /\ Failed(calls[c])) =>
             tables = calls[c].registryAtStart)

\* C6: the registry changes only in the step that ends a successful load,
\* which sets the entry of its own table name and no other, in a step of
\* dropTable, which removes the entry of the named table and no other, and
\* in close, which empties it; a loadFile that fails leaves the registry as
\* it found it.
C6_OnlyLoadDropAndClose ==
  /\ [][tables' # tables =>
          \E c \in Slots :
            RegistryLoadStep(c) \/ RegistryDropStep(c) \/ RegistryCloseStep(c)]_vars
  /\ [](\A c \in Slots :
          (calls[c].op = "loadFile" /\ Failed(calls[c])) =>
             tables = calls[c].registryAtStart)
  /\ [](\A c \in Slots :
          (calls[c].op = "dropTable" /\ Succeeded(calls[c])) =>
             /\ DOMAIN tables = (DOMAIN calls[c].registryAtStart) \ {calls[c].name}
             /\ \A k \in DOMAIN tables : tables[k] = calls[c].registryAtStart[k])

\* a dropTable has removed one of the two entries two loads had added, the
\* other is still there
C6_Witness ==
  \E c \in Slots :
    /\ calls[c].op = "dropTable" /\ Succeeded(calls[c])
    /\ Cardinality(DOMAIN calls[c].registryAtStart) = 2
    /\ calls[c].name \in DOMAIN calls[c].registryAtStart
    /\ Cardinality(DOMAIN tables) = 1

(***************************************************************************)
(* The load options, the encodings, the sanitizer: properties of            *)
(* SpecOptions, SpecEncoding and SpecSanitize                              *)
(***************************************************************************)
\* the positions of the line feeds of t, and what follows the k-th of them
LineFeeds(t) == {i \in 1..Len(t) : t[i] = Ch.LF}
AfterLineFeed(t, k) ==
  LET p == CHOOSE q \in LineFeeds(t) : Cardinality({r \in LineFeeds(t) : r <= q}) = k
  IN  SubSeq(t, p + 1, Len(t))
\* the header line: the custom headers with the delimiter between them
HeaderLine(h, d) ==
  IF Len(h) = 0 THEN <<>>
  ELSE IF Len(h) = 1 THEN h[1]
  ELSE h[1] \o <<d>> \o h[2]

\* C7: with customHeaders the text handed to the engine is the custom
\* headers joined by the detected delimiter, followed by each line of the
\* content after its first skipRows lines; without customHeaders it is the
\* content without its first skipRows lines; with skipRows = 0 and no
\* customHeaders it is the content.
C7_LoadOptions ==
  stage = "applied" =>
    LET k == opts.skipRows
        d == detectDelimiter(text).delimiter
        some == Cardinality(LineFeeds(text)) >= k
        rest == IF k = 0 THEN text ELSE AfterLineFeed(text, k)
    IN  IF opts.hasCustom
          THEN once = HeaderLine(opts.customHeaders, d)
                        \o (IF some THEN <<Ch.LF>> \o rest ELSE <<>>)
        ELSE IF k > 0
          THEN once = (IF some THEN rest ELSE <<>>)
        ELSE once = text

\* two custom headers put in front of what follows the first of three lines
C7_Witness ==
  /\ stage = "applied"
  /\ opts.hasCustom /\ opts.skipRows = 1 /\ Len(opts.customHeaders) = 2
  /\ Cardinality(LineFeeds(text)) = 2
  /\ text[1] # Ch.LF /\ text[Len(text)] # Ch.LF
  /\ Len(once) > 3

\* the signature the bytes start with, the longest when there are two
SignatureOf(b) ==
  LET found == {g \in Signatures : Len(g) <= Len(b) /\ SubSeq(b, 1, Len(g)) = g}
  IN  IF found = {} THEN <<>>
      ELSE CHOOSE g \in found : \A h \in found : Len(h) <= Len(g)
SignatureEncoding(g) ==
  CASE g = <<255, 254, 0, 0>> -> "UTF-32LE"
    [] g = <<0, 0, 254, 255>> -> "UTF-32BE"
    [] g = <<239, 187, 191>>  -> "UTF-8"
    [] g = <<255, 254>>       -> "UTF-16LE"
    [] OTHER                  -> "UTF-16BE"

\* C8: for bytes that start with one of the five signatures, the four-byte
\* ones before the two-byte ones, detectEncoding gives the encoding of the
\* signature, hasBOM = true and the length of the signature; the text
\* decodeToUTF8 gives is the text of the bytes after the signature, and,
\* when no byte of a signature's first position follows (0xEF, 0xFE,
\* 0xFF), it has no U+FEFF.
C8_Signatures ==
  LET g == SignatureOf(bytes)
      payload == SubSeq(bytes, Len(g) + 1, Len(bytes))
  IN  g # <<>> =>
        /\ stage \in {"detected", "decoded"} =>
             enc = [encoding |-> SignatureEncoding(g), hasBOM |-> TRUE,
                    bomLength |-> Len(g)]
        /\ stage = "decoded" =>
             /\ text = decodeToUTF8(payload, SignatureEncoding(g), 0)
             /\ (\A i \in 1..Len(payload) : payload[i] \notin {239, 254, 255}) =>
                  \A j \in 1..Len(text) : text[j] # Ch.BOM

\* FF FE 00 00 and the four bytes of "a" in UTF-32LE, decoded to "a"
C8_Witness ==
  /\ stage = "decoded"
  /\ bytes = <<255, 254, 0, 0, 97, 0, 0, 0>>
  /\ text = <<97>>

\* C9 as stated: detectEncoding returns one of the seven encodings for
\* every input, and UTF-8 without BOM for the empty input and for every
\* input of bytes below 0x80.
C9_AsciiIsUtf8 ==
  stage \in {"detected", "decoded"} =>
    /\ enc.encoding \in {"UTF-8", "UTF-16LE", "UTF-16BE", "UTF-32LE", "UTF-32BE",
                         "Windows-1252", "ISO-8859-1"}
    /\ (\A i \in 1..Len(bytes) : bytes[i] < 128) =>
         enc = [encoding |-> "UTF-8", hasBOM |-> FALSE, bomLength |-> 0]

\* C9: detectEncoding returns one of the seven encodings for every input,
\* with a BOM length that the input has, and UTF-8 without BOM for the empty
\* input and for every input of bytes from 0x01 to 0x7F (no NUL).
C9_AsciiWithoutNulIsUtf8 ==
  stage \in {"detected", "decoded"} =>
    /\ enc.encoding \in {"UTF-8", "UTF-16LE", "UTF-16BE", "UTF-32LE", "UTF-32BE",
                         "Windows-1252", "ISO-8859-1"}
    /\ enc.hasBOM \in BOOLEAN
    /\ enc.bomLength \in 0..Len(bytes)
    /\ (\A i \in 1..Len(bytes) : bytes[i] \in 1..127) =>
         enc = [encoding |-> "UTF-8", hasBOM |-> FALSE, bomLength |-> 0]

\* "aaa" has been classified
C9_Witness ==
  /\ stage = "detected"
  /\ bytes = <<97, 97, 97>>
  /\ enc.encoding = "UTF-8"

\* C10: sanitizing the sanitized text gives the sanitized text.
C10_SanitizeIdempotent ==
  stage = "twice" => text = once

(***************************************************************************)
(* The sanitized text: properties of SpecClean                             *)
(***************************************************************************)
\* the line ends of t: every LF, and every CR that no LF follows
LineEnds(t) ==
  Cardinality({i \in 1..Len(t) :
                 \/ t[i] = 10
                 \/ t[i] = 13 /\ ~(i < Len(t) /\ t[i + 1] = 10)})
\* the control characters: U+0000..U+001F and U+007F..U+009F
IsControl(c) == c \in 0..31 \/ c \in 127..159

\* C11: the sanitized text of any input has no carriage return (it has one
\* LF for each CRLF, lone CR and LF of the input), no NUL, no zero-width
\* character (U+200B..U+200D, U+FEFF), no smart quote, no non-breaking
\* space, and no control character other than tab and newline.
C11_SanitizedTextIsClean ==
  stage \in {"analysis", "engine"} =>
    /\ Cardinality({i \in 1..Len(ret) : ret[i] = 10}) = LineEnds(arg)
    /\ \A i \in 1..Len(ret) :
         /\ ret[i] \notin {13, 0, 8203, 8204, 8205, 65279, 8216, 8217, 8220, 8221, 160}
         /\ IsControl(ret[i]) => ret[i] \in {9, 10}

(***************************************************************************)
(* The tokenizer: properties of SpecParse                                  *)
(***************************************************************************)
\* the positions of the quote characters of a line
QuotePositions(line) == {i \in 1..Len(line) : line[i] \in {34, 39}}
\* every run of the character q in m has an even length
EvenRuns(m, q) ==
  \A k \in 1..Len(m) :
    (m[k] = q /\ (k = Len(m) \/ m[k + 1] # q)) =>
      LET start == CHOOSE h \in 1..k :
                     /\ \A x \in h..k : m[x] = q
                     /\ (h = 1 \/ m[h - 1] # q)
      IN  (k - start + 1) % 2 = 0
\* m with every pair of q replaced by one q
RECURSIVE Unescaped(_, _, _)
Unescaped(m, q, k) ==
  IF k > Len(m) THEN <<>>
  ELSE IF m[k] = q THEN <<q>> \o Unescaped(m, q, k + 2)
  ELSE <<m[k]>> \o Unescaped(m, q, k + 1)

\* C12: parseCSVLine splits a line quote-aware.  A line without quote
\* characters is split at every delimiter.  In a line whose first and last
\* quote characters are the same character q, with q between them only in
\* pairs (one quoted span), the span contributes its content to the field
\* around it: its delimiters and the other quote character as they are, each
\* pair of q as one q, the opening and the closing q not at all; the text
\* before and after the span is split at every delimiter.
C12_QuoteAwareSplit ==
  stage = "parsed" =>
    LET line == arg.line
        d == arg.delimiter
        quotes == QuotePositions(line)
        i == CHOOSE x \in quotes : \A y \in quotes : x <= y
        j == CHOOSE x \in quotes : \A y \in quotes : y <= x
        m == SubSeq(line, i + 1, j - 1)
        before == Split(SubSeq(line, 1, i - 1), d)
        after == Split(SubSeq(line, j + 1, Len(line)), d)
    IN  IF quotes = {} THEN ret = Split(line, d)
        ELSE (i < j /\ line[i] = line[j] /\ EvenRuns(m, line[i])) =>
               ret = SubSeq(before, 1, Len(before) - 1)
                     \o << before[Len(before)] \o Unescaped(m, line[i], 1) \o after[1] >>
                     \o Tail(after)

\* the line "a,""" (quote, a, comma, three quotes) parsed with the comma as
\* delimiter: one field, a comma quote
C12_Witness ==
  /\ stage = "parsed"
  /\ arg = [line |-> <<34, 97, 44, 34, 34, 34>>, delimiter |-> 44]
  /\ ret = << <<97, 44, 34>> >>

(***************************************************************************)
(* The delimiter: properties of SpecDelimiter.  The contents have the      *)
(* double quote as their only quote character: a position is outside the   *)
(* quoted spans when an even number of quotes precedes it.                 *)
(***************************************************************************)
FourCandidates == <<44, 9, 59, 124>>
\* the non-blank lines detectDelimiter looks at: the first 20
SampledLines(content) == Take(NonBlankLines(Split(content, 10)), 20)
\* how often c stands outside the quoted spans of the line
OutsideQuotes(line, c) ==
  Cardinality({p \in 1..Len(line) :
                 /\ line[p] = c
                 /\ Cardinality({x \in 1..(p - 1) : line[x] = 34}) % 2 = 0})

\* C13: when every sampled line has the same number k >= 1 of one candidate
\* outside its quoted spans and no other candidate outside them,
\* detectDelimiter returns that candidate, whatever stands inside the quoted
\* spans and after the sampled lines.
C13_ConsistentDelimiterWins ==
  stage = "inferred" =>
    LET lines == SampledLines(arg) IN
    \A c \in 1..4, k \in 1..MaxRun :
      (/\ Len(lines) > 0
       /\ \A n \in 1..Len(lines) :
            /\ OutsideQuotes(lines[n], FourCandidates[c]) = k
            /\ \A o \in (1..4) \ {c} : OutsideQuotes(lines[n], FourCandidates[o]) = 0)
      => ret.delimiter = FourCandidates[c]

\* ",",| : a comma inside a quoted span, one pipe outside: the pipe
C13_Witness ==
  /\ stage = "inferred"
  /\ arg = <<34, 44, 34, 124>>
  /\ ret.delimiter = 124

\* the score of candidate c over the lines, as the fraction num / den:
\* (share of the non-zero counts within 1 of their mean) * (their mean)
\* * (share of the lines with a non-zero count), times 1.1 for the comma
CandidateScore(lines, c) ==
  LET count(n) == OutsideQuotes(lines[n], FourCandidates[c])
      nonZero == {n \in 1..Len(lines) : count(n) > 0}
      size == Cardinality(nonZero)
      total == SumSeq([n \in 1..Len(lines) |-> count(n)], 1)
      near == Cardinality({n \in nonZero :
                             /\ count(n) * size - total <= size
                             /\ total - count(n) * size <= size})
  IN  IF size = 0 THEN [num |-> 0, den |-> 1]
      ELSE [num |-> near * total * (IF c = 1 THEN 11 ELSE 10),
            den |-> size * Len(lines) * 10]

\* C14: detectDelimiter returns one of the four candidates with a
\* confidence in [0, 1] equal to min(1, bestScore / 10), bestScore being the
\* highest score of a candidate; of the candidates with the highest score it
\* returns the one declared first (comma, tab, semicolon, pipe); for empty
\* or all-blank content, and when no candidate stands outside quotes in the
\* sampled lines, it returns the comma with confidence 0.
C14_BestScoreFirstDeclared ==
  stage = "inferred" =>
    LET lines == SampledLines(arg)
        score(c) == IF Len(lines) = 0 THEN [num |-> 0, den |-> 1]
                    ELSE CandidateScore(lines, c)
        less(a, b) == a.num * b.den < b.num * a.den
        best == CHOOSE c \in 1..4 :
                  \A o \in 1..4 : /\ o < c => less(score(o), score(c))
                                  /\ o > c => ~less(score(c), score(o))
        top == score(best)
    IN  /\ \E c \in 1..4 : ret.delimiter = FourCandidates[c]
        /\ ret.delimiter = FourCandidates[best]
        /\ ret.confidence.den > 0
        /\ 0 <= ret.confidence.num /\ ret.confidence.num <= ret.confidence.den
        /\ IF top.num > 10 * top.den
             THEN ret.confidence.num = ret.confidence.den
             ELSE ret.confidence.num * 10 * top.den = top.num * ret.confidence.den
        /\ (\A c \in 1..4 : \A n \in 1..Len(lines) :
              OutsideQuotes(lines[n], FourCandidates[c]) = 0)
           => (ret.delimiter = 44 /\ ret.confidence.num = 0)

\* a tab and a semicolon in one line, the same score: the tab
C14_Witness ==
  /\ stage = "inferred"
  /\ arg = <<97, 59, 9, 97>>
  /\ ret.delimiter = 9
  /\ ret.confidence.num * 10 = ret.confidence.den

(***************************************************************************)
(* The column names: properties of SpecName                                *)
(***************************************************************************)
IsAsciiLetter(c) == c \in 65..90 \/ c \in 97..122
IsAsciiDigit(c) == c \in 48..57

\* C15: sanitizeColumnName returns, for every input, a non-empty name of at
\* most 64 characters, all of them ASCII letters, digits, underscores or
\* hyphens, the first not a digit; it returns column for an input that is
\* empty or not a string, and for one that the replacements leave nothing
\* of (no letter, digit or hyphen in it).
C15_SafeColumnName ==
  stage = "sanitized" =>
    /\ Len(ret) >= 1 /\ Len(ret) <= 64
    /\ \A i \in 1..Len(ret) :
         IsAsciiLetter(ret[i]) \/ IsAsciiDigit(ret[i]) \/ ret[i] \in {95, 45}
    /\ ~IsAsciiDigit(ret[1])
    /\ (\A i \in 1..Len(arg) :
          ~(IsAsciiLetter(arg[i]) \/ IsAsciiDigit(arg[i]) \/ arg[i] = 45))
       => ret = <<99, 111, 108, 117, 109, 110>>

\* a name of a digit and 64 letters: an underscore in front, cut to 64
C15_Witness ==
  /\ stage = "sanitized"
  /\ Len(arg) = 65 /\ arg[1] = 49 /\ arg[2] = 97
  /\ Len(ret) = 64 /\ ret[1] = 95 /\ ret[2] = 49

(***************************************************************************)
(* The uniqueness pass: properties of SpecUnique                           *)
(***************************************************************************)
LowerCase(name) ==
  [i \in 1..Len(name) |-> IF name[i] \in 65..90 THEN name[i] + 32 ELSE name[i]]
\* the name a place of the list counts as: column for an empty name, a
\* blank one and for null
CountsAs(name) ==
  IF name = <<-1>> \/ \A i \in 1..Len(name) : name[i] = 32
    THEN <<99, 111, 108, 117, 109, 110>> ELSE name
\* the digits of k, for k below 100
Digits(k) == IF k < 10 THEN <<48 + k>> ELSE <<48 + (k \div 10), 48 + (k % 10)>>

\* C16: no two names of the list makeUniqueColumnNames returns are equal
\* case-insensitively.
C16_NamesUnique ==
  stage = "unique" =>
    \A i, j \in 1..Len(ret) : i < j => LowerCase(ret[i]) # LowerCase(ret[j])

\* C17: makeUniqueColumnNames keeps the length and the order; a name that
\* no earlier name equals case-insensitively is returned as it is, the k-th
\* later occurrence of a name as that occurrence followed by _k; an empty or
\* blank name counts as column.
C17_SuffixByOccurrence ==
  stage = "unique" =>
    /\ Len(ret) = Len(arg)
    /\ \A i \in 1..Len(arg) :
         LET name == CountsAs(arg[i])
             k == Cardinality({j \in 1..(i - 1) :
                                 LowerCase(CountsAs(arg[j])) = LowerCase(name)})
         IN  ret[i] = IF k = 0 THEN name ELSE name \o <<95>> \o Digits(k)

\* a, A, a: the second becomes A_1, the third a_2
C17_Witness ==
  /\ stage = "unique"
  /\ arg = << <<97>>, <<65>>, <<97>> >>
  /\ ret = << <<97>>, <<65, 95, 49>>, <<97, 95, 50>> >>

(***************************************************************************)
(* The header: properties of SpecHeader.  The contents have no quote       *)
(* characters: the tokens of a line are what stands between delimiters.    *)
(***************************************************************************)
\* the non-blank lines of the content
ContentLines(content) == NonBlankLines(Split(content, 10))
\* the token parses as a number: after leading spaces and a sign it starts
\* with a digit, or with a dot and a digit
NumericToken(t) ==
  \E i \in 1..Len(t) :
    /\ \A j \in 1..(i - 1) : t[j] = 32
    /\ \/ t[i] \in 48..57
       \/ t[i] \in {43, 45, 46} /\ i < Len(t) /\ t[i + 1] \in 48..57
       \/ t[i] \in {43, 45} /\ i + 1 < Len(t) /\ t[i + 1] = 46 /\ t[i + 2] \in 48..57
HasLetter(t) == \E i \in 1..Len(t) : t[i] \in 65..90 \/ t[i] \in 97..122
\* the token without the spaces around it
Spaceless(t) ==
  LET inner == {i \in 1..Len(t) : t[i] # 32} IN
  IF inner = {} THEN <<>>
  ELSE SubSeq(t, CHOOSE i \in inner : \A j \in inner : i <= j,
                 CHOOSE i \in inner : \A j \in inner : j <= i)
\* the points of the four signals, the second one with the tokens compared
\* as they are (trimmed = FALSE) or without the spaces around them
HeaderPoints(first, second, trimmed) ==
  LET key(t) == LowerCase(IF trimmed THEN Spaceless(t) ELSE t)
      changes == Cardinality({i \in 1..Len(first) :
                                /\ i <= Len(second)
                                /\ ~NumericToken(first[i]) /\ NumericToken(second[i])})
  IN    (IF \A i \in 1..Len(first) : ~NumericToken(first[i]) THEN 2 ELSE 0)
      + (IF \A i, j \in 1..Len(first) : i < j => key(first[i]) # key(first[j])
           THEN 1 ELSE 0)
      + (IF changes * 3 > Len(first) THEN 2 ELSE 0)
      + (IF \E i \in 1..Len(first) : HasLetter(first[i]) THEN 1 ELSE 0)

\* C18 as stated: hasHeader is true exactly when the score is at least 2 and
\* the confidence is min(1, score / 5), the score being 2 for no numeric
\* first-row token, plus 1 for first-row tokens unique case-insensitively,
\* plus 2 for more than a third of the positions going from non-numeric to
\* numeric, plus 1 for a letter in the first row; an all-numeric first row
\* gives hasHeader = false; fewer than 2 non-blank lines give true with 0.5.
C18_HeaderScore ==
  stage = "header" =>
    LET lines == ContentLines(arg.content)
        first == Split(lines[1], arg.delimiter)
        second == Split(lines[2], arg.delimiter)
        score == HeaderPoints(first, second, FALSE)
    IN  IF Len(lines) < 2
          THEN ret.hasHeader /\ ret.confidence.num * 2 = ret.confidence.den
          ELSE /\ ret.hasHeader <=> score >= 2
               /\ IF score >= 5 THEN ret.confidence.num = ret.confidence.den
                  ELSE ret.confidence.num * 5 = score * ret.confidence.den
               /\ (\A i \in 1..Len(first) : NumericToken(first[i])) => ~ret.hasHeader

\* C18: as above, with the first-row tokens compared for uniqueness
\* case-insensitively and without the spaces around them; a unique textual
\* first row above a numeric second row gives hasHeader = true with
\* confidence at least 0.6; an all-numeric first row gives a confidence of
\* at most 0.4, and hasHeader = true exactly when its tokens are unique and
\* one of them holds a letter (1e5), so hasHeader = false when none does.
C18_HeaderScoreTrimmed ==
  stage = "header" =>
    LET lines == ContentLines(arg.content)
        first == Split(lines[1], arg.delimiter)
        second == Split(lines[2], arg.delimiter)
        score == HeaderPoints(first, second, TRUE)
        unique == \A i, j \in 1..Len(first) :
                    i < j => LowerCase(Spaceless(first[i])) # LowerCase(Spaceless(first[j]))
        letter == \E i \in 1..Len(first) : HasLetter(first[i])
    IN  IF Len(lines) < 2
          THEN ret.hasHeader /\ ret.confidence.num * 2 = ret.confidence.den
          ELSE /\ ret.hasHeader <=> score >= 2
               /\ IF score >= 5 THEN ret.confidence.num = ret.confidence.den
                  ELSE ret.confidence.num * 5 = score * ret.confidence.den
               /\ (/\ \A i \in 1..Len(first) : ~NumericToken(first[i])
                   /\ unique)
                  => (ret.hasHeader /\ ret.confidence.num * 5 >= 3 * ret.confidence.den)
               /\ (\A i \in 1..Len(first) : NumericToken(first[i]))
                  => /\ ret.hasHeader <=> (unique /\ letter)
                     /\ ret.confidence.num * 5 <= 2 * ret.confidence.den

\* the first row 1e above the row 1: numeric, unique, with a letter
C18_Witness ==
  /\ stage = "header"
  /\ arg = [content |-> <<49, 101, 10, 49>>, delimiter |-> 44]
  /\ ret.hasHeader
  /\ ret.confidence.num * 5 = 2 * ret.confidence.den

(***************************************************************************)
(* The column names of a loaded table: a property of Spec                  *)
(***************************************************************************)
\* C19: after a successful load the columns of the table are the names
\* sanitizeColumnName and then makeUniqueColumnNames give for the names
\* read_csv gave it: they hold only letters, digits, underscores and
\* hyphens, and no two of them are equal case-insensitively.
C19_ColumnsSanitized ==
  \A c \in Slots :
    LET cl == calls[c] IN
    (IsLoad(cl) /\ Succeeded(cl) /\ Alive(conn) /\ cl.name \in DOMAIN dbTables[conn]) =>
      LET actual == dbTables[conn][cl.name].columns
          wanted == makeUniqueColumnNames(
                      [i \in 1..Len(cl.columns) |-> sanitizeColumnName(cl.columns[i])])
      IN  /\ actual = wanted
          /\ \A i \in 1..Len(actual) : \A j \in 1..Len(actual[i]) :
               \/ IsAsciiLetter(actual[i][j]) \/ IsAsciiDigit(actual[i][j])
               \/ actual[i][j] \in {95, 45}
          /\ \A i, j \in 1..Len(actual) :
               i < j => LowerCase(actual[i]) # LowerCase(actual[j])

(***************************************************************************)
(* BOM-less UTF-16: a property of SpecLong                                 *)
(***************************************************************************)
\* the NUL bytes among the first n bytes of b at the offsets (from 0) of
\* the given parity
NulsAt(b, n, parity) ==
  Cardinality({i \in 1..n : b[i] = 0 /\ (i - 1) % 2 = parity})

\* C20: for input without a signature, detectEncoding returns UTF-16LE when
\* the NUL bytes at even offsets among the first min(10000, len) bytes are
\* more than len/4 and those at odd offsets fewer than len/20, and UTF-16BE
\* in the mirrored case, whatever the length of the input.
C20_Utf16ByNulShare ==
  (stage = "detected" /\ SignatureOf(bytes) = <<>>) =>
    LET len == Len(bytes)
        n == IF len < 10000 THEN len ELSE 10000
        even == NulsAt(bytes, n, 0)
        odd == NulsAt(bytes, n, 1)
    IN  /\ (even * 4 > len /\ odd * 20 < len) => enc.encoding = "UTF-16LE"
        /\ (odd * 4 > len /\ even * 20 < len) => enc.encoding = "UTF-16BE"

(***************************************************************************)
(* Input without a signature that is not UTF-16: a property of             *)
(* SpecEncoding                                                            *)
(***************************************************************************)
\* the bytes a lead byte announces, itself included: 1 for ASCII, 2, 3 or 4
\* for the leads 110xxxxx, 1110xxxx and 11110xxx, 0 for any other byte
Announced(byte) ==
  CASE byte < 128 -> 1
    [] byte \in 192..223 -> 2
    [] byte \in 224..239 -> 3
    [] byte \in 240..247 -> 4
    [] OTHER -> 0

IsContinuation(byte) == byte \in 128..191

\* the continuation bytes that stand in a row right after position i
FollowingRun(b, i) ==
  Cardinality({k \in (i + 1)..Len(b) :
                 \A j \in (i + 1)..k : IsContinuation(b[j])})

\* A valid UTF-8 stream: it does not start with a continuation byte, and
\* every other byte is ASCII or a lead followed by exactly the continuation
\* bytes it announces.
ValidUtf8Stream(b) ==
  /\ Len(b) > 0 => ~IsContinuation(b[1])
  /\ \A i \in 1..Len(b) :
       ~IsContinuation(b[i]) =>
         /\ Announced(b[i]) > 0
         /\ FollowingRun(b, i) = Announced(b[i]) - 1

HasWin1252Byte(b) == \E i \in 1..Len(b) : b[i] \in WIN1252_SPECIFIC

\* C21: for input without a signature that is not classified as UTF-16,
\* detectEncoding returns UTF-8 only if the bytes are a valid UTF-8 stream;
\* it returns Windows-1252 when they are not and contain a byte specific to
\* Windows-1252, and ISO-8859-1 when they are not and contain none.
C21_Utf8OnlyWhenValid ==
  (/\ stage = "detected"
   /\ SignatureOf(bytes) = <<>>
   /\ enc.encoding \notin {"UTF-16LE", "UTF-16BE"}) =>
    /\ enc.encoding = "UTF-8" => ValidUtf8Stream(bytes)
    /\ (~ValidUtf8Stream(bytes) /\ HasWin1252Byte(bytes)) =>
         enc.encoding = "Windows-1252"
    /\ (~ValidUtf8Stream(bytes) /\ ~HasWin1252Byte(bytes)) =>
         enc.encoding = "ISO-8859-1"

(***************************************************************************)
(* ask and its retries: a property of SpecAsk                              *)
(***************************************************************************)
\* what the call of generateSQL number k of an ask call should be given:
\* nothing the first time, then the message and the SQL of attempt k - 1
PreviousOf(cl, k) ==
  IF k = 1 THEN NoPrevious
  ELSE [message |-> cl.tried[k - 1].message, sql |-> cl.tried[k - 1].sql]

\* an ask call as it stands: its generateSQL calls and its attempts
AskSoFar(cl) ==
  /\ Len(cl.generated) <= cl.maxRetries + 1
  /\ \A k \in 1..Len(cl.generated) : cl.generated[k] = PreviousOf(cl, k)
  /\ \A k \in 1..Len(cl.tried) :
       cl.tried[k].message = "" =>
         /\ k = Len(cl.tried) /\ k = Len(cl.generated)
         /\ cl.pc = "done" /\ cl.outcome = "returned"

\* an ask call as it ends: the last allowed attempt has failed
LastAttemptFailed(cl) ==
  /\ Len(cl.tried) = cl.maxRetries + 1
  /\ cl.tried[Len(cl.tried)].message # ""

\* C22: ask calls generateSQL at most maxRetries + 1 times, the first time
\* without a previous error and each later time with the error message and
\* the SQL of the attempt just before; it returns on the first attempt whose
\* SQL executes and makes no further attempt; when the last allowed attempt
\* fails it sets the error state and rethrows that attempt's error;
\* isLoading is false once ask has returned or thrown.
C22_AskRetries ==
  [][\A c \in UserSlots :
       hookCalls'[c].op = "ask" =>
         /\ AskSoFar(hookCalls'[c])
         /\ (hookCalls[c].pc # "done" /\ hookCalls'[c].pc = "done") =>
              /\ isLoading' = FALSE
              /\ LastAttemptFailed(hookCalls'[c]) =>
                   /\ hookCalls'[c].outcome = "thrown"
                   /\ hookCalls'[c].thrown =
                        hookCalls'[c].tried[Len(hookCalls'[c].tried)].message
                   /\ error' = <<"Query failed", hookCalls'[c].thrown>>]_vars

(***************************************************************************)
(* The registry and the engine's tables: a property of Spec                *)
(***************************************************************************)
\* no call is under way, and close has not been called on a live engine
AtRest ==
  /\ \A c \in Slots : calls[c].pc \in {"idle", "done"} /\ calls[c].op # "close"
  /\ dead = {}

\* the tables the engine holds
HeldTables == IF conn = 0 THEN EmptyMap ELSE dbTables[conn]

\* C23: after any sequence of loadFile, loadCSVString and dropTable calls
\* whose engine queries may fail at any step, a table name is in the
\* registry exactly when the engine holds a table of that name, and the
\* registered rowCount is the row count of the table the engine holds.
C23_RegistryMatchesEngine ==
  AtRest =>
    /\ DOMAIN tables = DOMAIN HeldTables
    /\ \A n \in DOMAIN tables : tables[n].rowCount = HeldTables[n].rowCount

(***************************************************************************)
(* Calls that overlap: properties of SpecOverlap                           *)
(***************************************************************************)
\* the call in slot c takes the step from the place from to the place to
Moves(c, from, to) == calls[c].pc = from /\ calls'[c].pc = to

\* the load in slot c ends with a LoadResult
LoadReturns(c) ==
  /\ calls[c].pc # "done" /\ calls'[c].pc = "done"
  /\ calls'[c].op = "loadFile" /\ calls'[c].result.status = "ok"

\* C24: when two loadFile calls that resolve to the same table name
\* overlap, the table left in the engine, the registry entry and each
\* LoadResult describe one and the same file: a load creates its table from
\* its own text, and what it returns and registers is the row count of its
\* own file under its own file name, for the table the engine then holds.
C24_OneFilePerLoad ==
  [][\A c \in DOMAIN calls :
       /\ Moves(c, "create", "describe") =>
            dbTables'[conn][calls[c].name].text = calls[c].content
       /\ LoadReturns(c) =>
            /\ calls'[c].result.rowCount = DataRows(calls[c].content)
            /\ tables'[calls[c].name].originalName = calls[c].file.name
            /\ tables'[calls[c].name].rowCount = DataRows(calls[c].content)
            /\ dbTables'[conn][calls[c].name].text = calls[c].content]_vars

\* the places of a call where it uses this.conn
UsesConnection == {"create", "describe", "rename", "count"}

\* C25: under any interleaving of the callers of init(), the worker, the
\* database and the connection are created at most once, and no caller
\* goes on to use the connection before it has been set.
C25_InitOnce ==
  /\ workers <= 1
  /\ \A c \in DOMAIN calls : calls[c].pc \in UsesConnection => conn # 0

(***************************************************************************)
(* isLoading: a property of SpecHook                                       *)
(***************************************************************************)
\* the calls of loadFileSmart, loadFile, ask and executeSQL that have
\* started their work and have not yet returned or thrown
InFlight == {c \in UserSlots : hookCalls[c].pc \notin {"idle", "done"}}

\* C26: isLoading is true in every state in which at least one of
\* loadFileSmart, loadFile, ask and executeSQL is in flight, and false when
\* none is, whatever the interleaving of the calls that overlap.
C26_LoadingWhileInFlight == isLoading <=> InFlight # {}

(***************************************************************************)
(* The synthesized header line: a property of SpecCustom                   *)
(***************************************************************************)
\* C27: the header line loadFile makes of customHeaders reads back as the
\* same headers: for every list of custom headers and every delimiter d,
\* parseCSVLine(customHeaders.join(d), d) is customHeaders.
C27_HeaderLineReadsBack ==
  stage = "header line" => ret = arg.customHeaders

(***************************************************************************)
(* Raw lines and loaded lines: a property of SpecRaw.  The texts have      *)
(* fewer lines than getRawLines returns and no character the sanitizer     *)
(* changes other than the line ends.                                       *)
(***************************************************************************)
\* C28: line k of getRawLines is line k of the sanitized content loadFile
\* drops skipRows lines from, so that a skipRows counted on the raw lines
\* removes exactly those lines, whatever the mix of CRLF, LF and lone CR.
C28_RawLinesAreLoadedLines ==
  LET lines == Split(Sanitize(arg.content), Ch.LF) IN
  /\ stage \in {"raw lines", "rows dropped"} =>
       /\ Len(ret) = Len(lines)
       /\ \A k \in 1..Len(ret) : ret[k] = lines[k]
  /\ stage = "rows dropped" =>
       text = Join(Drop(ret, arg.skipRows), <<Ch.LF>>)

(***************************************************************************)
(* The sanitizer applied twice: a property of SpecAgain                    *)
(***************************************************************************)
\* C29: sanitizeColumnName is idempotent: for every name, names longer than
\* the limit of 64 characters included, sanitizing the sanitized name gives
\* the sanitized name.
C29_SanitizeNameIdempotent ==
  stage = "sanitized again" => text = ret

(***************************************************************************)
(* The counter and the tokenizer: a property of SpecParse                  *)
(***************************************************************************)
\* C30: for every line and delimiter parseCSVLine returns one field more
\* than countDelimitersOutsideQuotes counts delimiters, so the counter of
\* detectDelimiter and the tokenizer agree on where fields end, also on
\* lines with a span that is not closed or that a single quote opens.
C30_FieldsAreDelimitersPlusOne ==
  stage = "parsed" =>
    Len(ret) = countDelimitersOutsideQuotes(arg.line, arg.delimiter) + 1

\* a,'a,a : a delimiter outside and one inside a span that a single quote
\* opens and nothing closes
C30_Witness ==
  /\ stage = "parsed"
  /\ arg = [line |-> <<97, Ch.COMMA, Ch.SQ, 97, Ch.COMMA, 97>>, delimiter |-> Ch.COMMA]
  /\ ret = << <<97>>, <<97, Ch.COMMA, 97>> >>

====
